---------------------------- MODULE Spec2Model ----------------------------
(***************************************************************************)
(* Model of the oxlint plugin "inhuman" (src/unnamed/part_002): the        *)
(* structural classifiers, the usage resolver and the four rules           *)
(* require-guard-clauses, no-swallowed-catch, export-code-last and         *)
(* no-empty-wrappers.                                                      *)
(*                                                                         *)
(* A syntax-tree node is a record with a string field "type" and the       *)
(* ESTree fields the code reads.  JavaScript null/undefined is the record  *)
(* Null, so that `node?.type === "X"` is simply node.type = "X".  An array *)
(* is a sequence.  The host hands the engine one file (tree, source text,  *)
(* options) and calls the handlers a rule registered; every handler call   *)
(* is one action, and context.report appends to the variable reports.     *)
(***************************************************************************)
EXTENDS Integers, Sequences, FiniteSets, TLC

VARIABLES
    file,       \* the file under analysis: [program, sourceCode, options]
    reports,    \* the reporting sink: what context.report received, in order
    visited,    \* the handler calls the host has made on this file
    found,      \* the variable `found` of the usage scan called last
    instances   \* the rule instances the host has created, oldest first:
                \* what each `create(context)` closed over

vars == <<file, reports, visited, found, instances>>

-----------------------------------------------------------------------------
(* Bounds of the enumerated inputs.                                        *)

\* nesting depth of blocks inside an if's consequent
MaxDepth == 2
\* statements in a block inside an if's consequent
MaxBlockLen == 2
\* pieces of source text (comment openers and closers, line breaks,
\* statements) between the braces of a catch block
MaxPieces == 6
\* top-level statements of a file made of the statements of OrderLines
MaxBody == 4
\* top-level statements of a file made of the statements of ExportLines
MaxLines == 2

-----------------------------------------------------------------------------
(* Helpers over sequences.                                                 *)

SeqsUpTo(S, n) == UNION {[1..k -> S] : k \in 0..n}

SeqsFromTo(S, m, n) == UNION {[1..k -> S] : k \in m..n}

-----------------------------------------------------------------------------
(* Syntax-tree nodes, as the upstream parser produces them (ESTree).       *)

Null == [type |-> "null"]

Identifier(name) == [type |-> "Identifier", name |-> name]

UnaryExpression(operator, argument) ==
    [type |-> "UnaryExpression", operator |-> operator, argument |-> argument]

CallExpression(callee, arguments) ==
    [type |-> "CallExpression", callee |-> callee, arguments |-> arguments]

ReturnStatement(argument) == [type |-> "ReturnStatement", argument |-> argument]

ThrowStatement(argument) == [type |-> "ThrowStatement", argument |-> argument]

ExpressionStatement(expression) ==
    [type |-> "ExpressionStatement", expression |-> expression]

BlockStatement(body) == [type |-> "BlockStatement", body |-> body]

IfStatement(test, consequent, alternate) ==
    [type |-> "IfStatement", test |-> test, consequent |-> consequent,
     alternate |-> alternate]

\* a function declaration, function expression or arrow function; parent is
\* the node the host set as node.parent (only its type is ever read)
FunctionLike(type, id, params, body, parent) ==
    [type |-> type, id |-> id, params |-> params, body |-> body,
     parent |-> parent]

FunctionLikeTypes ==
    {"FunctionDeclaration", "FunctionExpression", "ArrowFunctionExpression"}

Program(body) == [type |-> "Program", body |-> body]

-----------------------------------------------------------------------------
(* Pattern classifiers.                                                    *)

\* a variant that looks only at a block's last statement
RECURSIVE isEarlyExitStatement_lastStatement(_)
isEarlyExitStatement_lastStatement(node) ==
    IF node = Null THEN FALSE
    ELSE IF node.type = "ReturnStatement" \/ node.type = "ThrowStatement" THEN TRUE
    ELSE IF node.type = "BlockStatement"
         THEN Len(node.body) >= 1
              /\ isEarlyExitStatement_lastStatement(node.body[Len(node.body)])
    ELSE FALSE

RECURSIVE isEarlyExitStatement(_)
isEarlyExitStatement(node) ==
    IF node = Null THEN FALSE
    ELSE IF node.type = "ReturnStatement" \/ node.type = "ThrowStatement" THEN TRUE
    ELSE IF node.type = "BlockStatement"
         THEN Len(node.body) = 1 /\ isEarlyExitStatement(node.body[1])
    ELSE FALSE

isNegatedCondition(node) ==
    node.type = "UnaryExpression" /\ node.operator = "!"

\* a node with its span [start, end) in the file's text
At(node, range) == [range |-> range] @@ node

\* a literal's value with its JavaScript typeof ("null" for null, "object"
\* for the RegExp of a regular-expression literal)
Literal(typeof, raw) == [type |-> "Literal", value |-> [typeof |-> typeof, raw |-> raw]]

TemplateLiteral(quasis, expressions) ==
    [type |-> "TemplateLiteral", quasis |-> quasis, expressions |-> expressions]

TemplateElement(raw) == [type |-> "TemplateElement", raw |-> raw]

ObjectExpression(properties) ==
    [type |-> "ObjectExpression", properties |-> properties]

MemberExpression(object, property, computed) ==
    [type |-> "MemberExpression", object |-> object, property |-> property,
     computed |-> computed]

ChainExpression(expression) == [type |-> "ChainExpression", expression |-> expression]

ParenthesizedExpression(expression) ==
    [type |-> "ParenthesizedExpression", expression |-> expression]

VariableDeclarator(id, init) ==
    [type |-> "VariableDeclarator", id |-> id, init |-> init]

VariableDeclaration(kind, declarations) ==
    [type |-> "VariableDeclaration", kind |-> kind, declarations |-> declarations]

ClassDeclaration(id) ==
    [type |-> "ClassDeclaration", id |-> id, superClass |-> Null,
     body |-> [type |-> "ClassBody", body |-> <<>>]]

TSTypeAliasDeclaration(id) ==
    [type |-> "TSTypeAliasDeclaration", id |-> id,
     typeAnnotation |-> [type |-> "TSStringKeyword"]]

ExportSpecifier(local, exported, exportKind) ==
    [type |-> "ExportSpecifier", local |-> local, exported |-> exported,
     exportKind |-> exportKind]

ExportNamedDeclaration(declaration, specifiers, source, exportKind) ==
    [type |-> "ExportNamedDeclaration", declaration |-> declaration,
     specifiers |-> specifiers, source |-> source, exportKind |-> exportKind]

ExportDefaultDeclaration(declaration) ==
    [type |-> "ExportDefaultDeclaration", declaration |-> declaration]

ExportAllDeclaration(exported, source, exportKind) ==
    [type |-> "ExportAllDeclaration", exported |-> exported, source |-> source,
     exportKind |-> exportKind]

-----------------------------------------------------------------------------
(* Pattern classifiers over exports and expressions.                       *)

isExportNode(node) ==
    \/ node.type = "ExportAllDeclaration"
    \/ node.type = "ExportDefaultDeclaration"
    \/ node.type = "ExportNamedDeclaration"

isTypeOnlyExport(node) ==
    IF node.type # "ExportNamedDeclaration" THEN FALSE
    ELSE IF node.exportKind = "type" THEN TRUE
    ELSE IF Len(node.specifiers) > 0
         THEN \A i \in 1..Len(node.specifiers) : node.specifiers[i].exportKind = "type"
    ELSE FALSE

\* a variant that takes a sign or a negation of any primitive literal
RECURSIVE isPrimitiveLiteralExpression_anyOperand(_)
isPrimitiveLiteralExpression_anyOperand(node) ==
    IF node = Null THEN FALSE
    ELSE IF node.type \in {"ParenthesizedExpression", "ChainExpression"}
         THEN isPrimitiveLiteralExpression_anyOperand(node.expression)
    ELSE IF node.type = "TemplateLiteral" THEN Len(node.expressions) = 0
    ELSE IF node.type = "Literal"
         THEN node.value.typeof \in {"null", "string", "number", "boolean", "bigint"}
    ELSE IF node.type = "UnaryExpression"
         THEN /\ node.operator \in {"+", "-", "~", "!"}
              /\ node.argument.type = "Literal"
              /\ node.argument.value.typeof
                     \in {"null", "string", "number", "boolean", "bigint"}
    ELSE FALSE

RECURSIVE isPrimitiveLiteralExpression(_)
isPrimitiveLiteralExpression(node) ==
    IF node = Null THEN FALSE
    ELSE IF node.type = "ParenthesizedExpression"
         THEN isPrimitiveLiteralExpression(node.expression)
    ELSE IF node.type = "ChainExpression"
         THEN isPrimitiveLiteralExpression(node.expression)
    ELSE IF node.type = "TemplateLiteral" THEN Len(node.expressions) = 0
    ELSE IF node.type = "Literal"
         THEN node.value.typeof \in {"null", "string", "number", "boolean", "bigint"}
    ELSE IF node.type = "UnaryExpression"
         THEN LET arg == node.argument IN
              IF node.operator \in {"+", "-", "~"}
              THEN arg.type = "Literal" /\ arg.value.typeof \in {"number", "bigint"}
              ELSE IF node.operator = "!"
              THEN arg.type = "Literal" /\ arg.value.typeof = "boolean"
              ELSE FALSE
    ELSE FALSE

\* a variant that is content with one primitive declarator
isPrimitiveConstExport_someDeclarator(node) ==
    IF node.type # "ExportNamedDeclaration" THEN FALSE
    ELSE IF node.source # Null THEN FALSE
    ELSE LET declaration == node.declaration IN
    IF declaration = Null \/ declaration.type # "VariableDeclaration"
       \/ declaration.kind # "const" THEN FALSE
    ELSE LET declarations == declaration.declarations IN
    IF Len(declarations) = 0 THEN FALSE
    ELSE \E i \in 1..Len(declarations) :
            /\ declarations[i].id.type = "Identifier"
            /\ isPrimitiveLiteralExpression(declarations[i].init)

isPrimitiveConstExport(node) ==
    IF node.type # "ExportNamedDeclaration" THEN FALSE
    ELSE IF node.source # Null THEN FALSE
    ELSE LET declaration == node.declaration IN
    IF declaration = Null \/ declaration.type # "VariableDeclaration"
       \/ declaration.kind # "const" THEN FALSE
    ELSE LET declarations == declaration.declarations IN
    IF Len(declarations) = 0 THEN FALSE
    ELSE \A i \in 1..Len(declarations) :
            /\ declarations[i].id.type = "Identifier"
            /\ isPrimitiveLiteralExpression(declarations[i].init)

\* a variant that allows re-exports unless the option is false
isExemptExport_allowedByDefault(node, options) ==
    IF isTypeOnlyExport(node) THEN TRUE
    ELSE IF isPrimitiveConstExport(node) THEN TRUE
    ELSE IF options.allowReExport # "false"
         THEN IF node.type = "ExportAllDeclaration" THEN TRUE
              ELSE node.type = "ExportNamedDeclaration" /\ node.source # Null
    ELSE FALSE

isExemptExport(node, options) ==
    IF isTypeOnlyExport(node) THEN TRUE
    ELSE IF isPrimitiveConstExport(node) THEN TRUE
    ELSE IF options.allowReExport = "true"
         THEN IF node.type = "ExportAllDeclaration" THEN TRUE
              ELSE node.type = "ExportNamedDeclaration" /\ node.source # Null
    ELSE FALSE

\* a variant that takes a list of one specifier for no list
isLocalNamedExportList_severalSpecifiers(node) ==
    IF node.type # "ExportNamedDeclaration" THEN FALSE
    ELSE IF node.declaration # Null THEN FALSE
    ELSE IF node.source # Null THEN FALSE
    ELSE Len(node.specifiers) > 1

isLocalNamedExportList(node) ==
    IF node.type # "ExportNamedDeclaration" THEN FALSE
    ELSE IF node.declaration # Null THEN FALSE
    ELSE IF node.source # Null THEN FALSE
    ELSE Len(node.specifiers) > 0

\* a variant that does not look through parentheses and optional chains
isAliasLikeExpression_noUnwrap(node) ==
    IF node = Null THEN FALSE
    ELSE node.type = "Identifier" \/ node.type = "MemberExpression"

RECURSIVE isAliasLikeExpression(_)
isAliasLikeExpression(node) ==
    IF node = Null THEN FALSE
    ELSE IF node.type = "Identifier" \/ node.type = "MemberExpression" THEN TRUE
    ELSE IF node.type = "ChainExpression" THEN isAliasLikeExpression(node.expression)
    ELSE IF node.type = "ParenthesizedExpression"
         THEN isAliasLikeExpression(node.expression)
    ELSE FALSE

isLocalAliasExport(node) ==
    IF node.type # "ExportNamedDeclaration" THEN FALSE
    ELSE LET declaration == node.declaration IN
    IF declaration = Null \/ declaration.type # "VariableDeclaration" THEN FALSE
    ELSE \E i \in 1..Len(declaration.declarations) :
            isAliasLikeExpression(declaration.declarations[i].init)

isDefaultIdentifierExport(node) ==
    IF node.type # "ExportDefaultDeclaration" THEN FALSE
    ELSE node.declaration.type = "Identifier"

\* `Array.isArray(node.range) && node.range.length === 2`, or numbers in
\* node.start and node.end
hasNodeRange(node) ==
    /\ node # Null
    /\ ("range" \in DOMAIN node \/ {"start", "end"} \subseteq DOMAIN node)

\* getNodeRange(node), Null when the node carries no span
getNodeRange(node) ==
    IF node = Null THEN Null
    ELSE IF "range" \in DOMAIN node THEN node.range
    ELSE IF {"start", "end"} \subseteq DOMAIN node THEN <<node.start, node.end>>
    ELSE Null

\* a variant that takes two nodes for the same only when they are one object
isSameNodeLocation_identity(left, right) == left = right

isSameNodeLocation(left, right) ==
    IF left = right THEN TRUE
    ELSE LET leftRange == getNodeRange(left)
             rightRange == getNodeRange(right)
         IN IF ~hasNodeRange(left) \/ ~hasNodeRange(right) THEN FALSE
            ELSE leftRange[1] = rightRange[1] /\ leftRange[2] = rightRange[2]

-----------------------------------------------------------------------------
(* Tree walker.                                                            *)

\* sourceCode.visitorKeys as the host supplies it: node type -> child fields
VisitorKeys ==
    [t \in {"Program", "BlockStatement", "IfStatement", "ReturnStatement",
            "ThrowStatement", "ExpressionStatement", "CallExpression",
            "UnaryExpression", "FunctionDeclaration", "FunctionExpression",
            "ArrowFunctionExpression", "VariableDeclaration",
            "VariableDeclarator", "Identifier", "Literal", "TryStatement",
            "CatchClause", "TemplateLiteral", "TemplateElement",
            "ObjectExpression", "Property", "MemberExpression",
            "ChainExpression", "ParenthesizedExpression", "ClassDeclaration",
            "ClassBody", "TSTypeAliasDeclaration", "TSStringKeyword",
            "ExportSpecifier", "ExportNamedDeclaration",
            "ExportDefaultDeclaration", "ExportAllDeclaration",
            "AwaitExpression", "SpreadElement", "RestElement", "ObjectPattern",
            "ArrayPattern", "AssignmentPattern", "NewExpression",
            "TSNonNullExpression"} |->
        CASE t = "Program" -> <<"body">>
          [] t = "BlockStatement" -> <<"body">>
          [] t = "IfStatement" -> <<"test", "consequent", "alternate">>
          [] t = "ReturnStatement" -> <<"argument">>
          [] t = "ThrowStatement" -> <<"argument">>
          [] t = "ExpressionStatement" -> <<"expression">>
          [] t = "CallExpression" -> <<"callee", "arguments">>
          [] t = "UnaryExpression" -> <<"argument">>
          [] t \in FunctionLikeTypes -> <<"id", "params", "body">>
          [] t = "VariableDeclaration" -> <<"declarations">>
          [] t = "VariableDeclarator" -> <<"id", "init">>
          [] t = "TryStatement" -> <<"block", "handler", "finalizer">>
          [] t = "CatchClause" -> <<"param", "body">>
          [] t = "TemplateLiteral" -> <<"quasis", "expressions">>
          [] t = "ObjectExpression" -> <<"properties">>
          [] t = "Property" -> <<"key", "value">>
          [] t = "MemberExpression" -> <<"object", "property">>
          [] t = "ChainExpression" -> <<"expression">>
          [] t = "ParenthesizedExpression" -> <<"expression">>
          [] t = "ClassDeclaration" -> <<"id", "superClass", "body">>
          [] t = "ClassBody" -> <<"body">>
          [] t = "TSTypeAliasDeclaration" -> <<"id", "typeAnnotation">>
          [] t = "ExportSpecifier" -> <<"exported", "local">>
          [] t = "ExportNamedDeclaration" -> <<"declaration", "specifiers", "source">>
          [] t = "ExportDefaultDeclaration" -> <<"declaration">>
          [] t = "ExportAllDeclaration" -> <<"exported", "source">>
          [] t \in {"AwaitExpression", "SpreadElement", "RestElement"} ->
                 <<"argument">>
          [] t = "ObjectPattern" -> <<"properties">>
          [] t = "ArrayPattern" -> <<"elements">>
          [] t = "AssignmentPattern" -> <<"left", "right">>
          [] t = "NewExpression" -> <<"callee", "arguments">>
          [] t = "TSNonNullExpression" -> <<"expression">>
          [] OTHER -> <<>>]

\* a sourceCode without visitorKeys: `sourceCode?.visitorKeys ?? null`
NoVisitorKeys == [t \in {} |-> <<>>]

\* Object.entries(node): the own fields of a node in the order the parser
\* sets them
OwnKeys(node) ==
    CASE node.type = "Program" -> <<"type", "body">>
      [] node.type = "BlockStatement" -> <<"type", "body", "range">>
      [] node.type = "TryStatement" -> <<"type", "block", "handler", "finalizer">>
      [] node.type = "CatchClause" -> <<"type", "param", "body">>
      [] node.type = "IfStatement" -> <<"type", "test", "consequent", "alternate">>
      [] node.type \in {"ReturnStatement", "ThrowStatement"} -> <<"type", "argument">>
      [] node.type = "ExpressionStatement" -> <<"type", "expression">>
      [] node.type = "CallExpression" -> <<"type", "callee", "arguments">>
      [] node.type = "UnaryExpression" -> <<"type", "operator", "argument">>
      [] node.type \in FunctionLikeTypes -> <<"type", "id", "params", "body", "parent">>
      [] node.type = "VariableDeclaration" -> <<"type", "kind", "declarations">>
      [] node.type = "VariableDeclarator" -> <<"type", "id", "init">>
      [] node.type = "Identifier" -> <<"type", "name", "typeAnnotation", "range">>
      [] node.type = "TSTypeAnnotation" -> <<"type", "typeAnnotation">>
      [] node.type = "Literal" -> <<"type", "value">>
      [] node.type = "TemplateLiteral" -> <<"type", "quasis", "expressions">>
      [] node.type = "TemplateElement" -> <<"type", "raw">>
      [] node.type = "ObjectExpression" -> <<"type", "properties">>
      [] node.type = "Property" ->
             <<"type", "key", "value", "computed", "shorthand", "parent">>
      [] node.type = "MemberExpression" ->
             <<"type", "object", "property", "computed">>
      [] node.type \in {"ChainExpression", "ParenthesizedExpression"} ->
             <<"type", "expression">>
      [] node.type = "ClassDeclaration" -> <<"type", "id", "superClass", "body">>
      [] node.type = "ClassBody" -> <<"type", "body">>
      [] node.type = "TSTypeAliasDeclaration" -> <<"type", "id", "typeAnnotation">>
      [] node.type = "ExportSpecifier" ->
             <<"type", "local", "exported", "exportKind">>
      [] node.type = "ExportNamedDeclaration" ->
             <<"type", "declaration", "specifiers", "source", "exportKind", "range">>
      [] node.type = "ExportDefaultDeclaration" -> <<"type", "declaration", "range">>
      [] node.type = "ExportAllDeclaration" ->
             <<"type", "exported", "source", "exportKind", "range">>
      [] node.type \in {"AwaitExpression", "SpreadElement", "RestElement"} ->
             <<"type", "argument">>
      [] node.type = "ObjectPattern" -> <<"type", "properties">>
      [] node.type = "ArrayPattern" -> <<"type", "elements">>
      [] node.type = "AssignmentPattern" -> <<"type", "left", "right">>
      [] node.type = "NewExpression" -> <<"type", "callee", "arguments">>
      [] node.type = "TSNonNullExpression" -> <<"type", "expression">>
      [] OTHER -> <<"type">>

\* the fields whose value is a string, boolean or number
PrimitiveKeys ==
    {"type", "name", "operator", "kind", "range", "raw", "computed", "shorthand",
     "exportKind", "start", "end"}

\* Array.isArray(node[key])
IsArrayValue(node, key) ==
    \/ key \in {"params", "arguments", "declarations", "specifiers", "quasis",
                "expressions", "properties", "elements"}
    \/ key = "body" /\ node.type \in {"Program", "BlockStatement", "ClassBody"}

\* `item && typeof item.type === "string"`
IsNodeValue(item) == item # Null /\ "type" \in DOMAIN item

\* a variant that takes every object for a node
collectChildNodesFromValue_anyObject(node, key) ==
    IF key \notin DOMAIN node \/ key \in PrimitiveKeys THEN <<>>
    ELSE IF IsArrayValue(node, key)
         THEN SelectSeq(node[key], LAMBDA item : item # Null)
    ELSE IF node[key] # Null THEN <<node[key]>>
    ELSE <<>>

\* collectChildNodesFromValue(node[key], children): what it pushes
collectChildNodesFromValue(node, key) ==
    IF key \notin DOMAIN node \/ key \in PrimitiveKeys THEN <<>>
    ELSE IF IsArrayValue(node, key) THEN SelectSeq(node[key], IsNodeValue)
    ELSE IF IsNodeValue(node[key]) THEN <<node[key]>>
    ELSE <<>>

\* the loop `for (const key of keys) collectChildNodesFromValue(node[key], children)`
RECURSIVE collectChildNodes(_, _)
collectChildNodes(node, keys) ==
    IF keys = <<>> THEN <<>>
    ELSE collectChildNodesFromValue(node, Head(keys))
         \o collectChildNodes(node, Tail(keys))

\* a variant that enumerates all own fields, the parent field too
getChildNodes_withParent(node, visitorKeys) ==
    IF ~IsNodeValue(node) THEN <<>>
    ELSE LET keys == IF node.type \in DOMAIN visitorKeys
                     THEN visitorKeys[node.type] ELSE <<>>
         IN IF Len(keys) > 0
            THEN collectChildNodes(node, keys)
            ELSE collectChildNodes(node, OwnKeys(node))

\* a variant that does not enter functions, as a resolver that knows about
\* scopes would not for a name the function binds
getChildNodes_notIntoFunctions(node, visitorKeys) ==
    IF ~IsNodeValue(node) \/ node.type \in FunctionLikeTypes THEN <<>>
    ELSE LET keys == IF node.type \in DOMAIN visitorKeys
                     THEN visitorKeys[node.type] ELSE <<>>
         IN IF Len(keys) > 0
            THEN collectChildNodes(node, keys)
            ELSE collectChildNodes(node,
                     SelectSeq(OwnKeys(node), LAMBDA k : k # "parent"))

getChildNodes(node, visitorKeys) ==
    IF ~IsNodeValue(node) THEN <<>>
    ELSE LET keys == IF node.type \in DOMAIN visitorKeys
                     THEN visitorKeys[node.type] ELSE <<>>
         IN IF Len(keys) > 0
            THEN collectChildNodes(node, keys)
            ELSE collectChildNodes(node,
                     SelectSeq(OwnKeys(node), LAMBDA k : k # "parent"))

\* the host's traversal of the file: every node of the trees in todo, in
\* source order
RECURSIVE Traverse(_)
Traverse(todo) ==
    IF todo = <<>> THEN <<>>
    ELSE <<Head(todo)>>
         \o Traverse(getChildNodes(Head(todo), VisitorKeys) \o Tail(todo))

Descendants(node) == Traverse(<<node>>)

NodesOfTypes(program, types) ==
    LET all == Descendants(program)
    IN {n \in {all[i] : i \in 1..Len(all)} : n.type \in types}

-----------------------------------------------------------------------------
(* Identifier usage resolver.                                              *)

\* `parent[key] === node`, false when parent has no such field
IsField(parent, key, node) == key \in DOMAIN parent /\ parent[key] = node

ClassTypes == {"ClassDeclaration", "ClassExpression"}

SpecifierTypes ==
    {"ImportSpecifier", "ImportDefaultSpecifier", "ImportNamespaceSpecifier",
     "ExportSpecifier"}

LabelTypes == {"LabeledStatement", "BreakStatement", "ContinueStatement"}

ClassMemberTypes == {"MethodDefinition", "PropertyDefinition", "ClassProperty"}

TSExpressionTypes ==
    {"TSAsExpression", "TSTypeAssertion", "TSNonNullExpression",
     "TSInstantiationExpression"}

TypeOnlyTypes ==
    {"TSTypeAnnotation", "TSTypeReference", "TSQualifiedName",
     "TSInterfaceDeclaration", "TSTypeAliasDeclaration", "TSModuleDeclaration",
     "TSParameterProperty", "TSPropertySignature", "TSTypeLiteral",
     "TSUnionType", "TSIntersectionType", "TSLiteralType", "TSArrayType",
     "TSTypeOperator", "TSIndexedAccessType", "TSMappedType", "TSFunctionType",
     "TSConstructorType", "TSImportType"}

\* a variant that decides by the type of the parent alone
isIdentifierReference_byParentType(node, parent) ==
    IF parent = Null THEN TRUE
    ELSE parent.type \notin
            ({"VariableDeclarator", "CatchClause", "ExportDefaultDeclaration",
              "MemberExpression", "Property", "AssignmentPattern", "RestElement",
              "ArrayPattern", "ObjectPattern", "ForInStatement", "ForOfStatement"}
             \cup FunctionLikeTypes \cup ClassTypes \cup SpecifierTypes
             \cup ClassMemberTypes \cup LabelTypes \cup TypeOnlyTypes)

isIdentifierReference(node, parent) ==
    IF parent = Null THEN TRUE
    ELSE LET parentType == parent.type IN
    IF parentType = "VariableDeclarator" THEN parent.init = node
    ELSE IF parentType \in {"FunctionDeclaration", "FunctionExpression",
                            "ArrowFunctionExpression"}
         THEN IF parent.id = node THEN FALSE
              ELSE IF \E i \in 1..Len(parent.params) : parent.params[i] = node
                   THEN FALSE
              ELSE TRUE
    ELSE IF parentType \in {"ClassDeclaration", "ClassExpression"}
         THEN IF parent.id = node THEN FALSE ELSE TRUE
    ELSE IF parentType = "CatchClause"
         THEN IF parent.param = node THEN FALSE ELSE TRUE
    ELSE IF parentType \in {"ImportSpecifier", "ImportDefaultSpecifier",
                            "ImportNamespaceSpecifier", "ExportSpecifier"}
         THEN FALSE
    ELSE IF parentType = "ExportDefaultDeclaration"
         THEN IF parent.declaration = node THEN FALSE ELSE TRUE
    ELSE IF parentType = "MemberExpression"
         THEN IF parent.property = node /\ ~parent.computed THEN FALSE ELSE TRUE
    ELSE IF parentType = "Property"
         THEN LET inPattern == parent.parent.type = "ObjectPattern" IN
              IF inPattern
              THEN IF parent.key = node /\ parent.computed THEN TRUE ELSE FALSE
              ELSE IF parent.key = node
                   THEN IF parent.computed THEN TRUE
                        ELSE IF parent.shorthand THEN TRUE
                        ELSE FALSE
              ELSE TRUE
    ELSE IF parentType = "MethodDefinition"
         THEN IF parent.key = node /\ ~parent.computed THEN FALSE ELSE TRUE
    ELSE IF parentType \in {"PropertyDefinition", "ClassProperty"}
         THEN IF parent.key = node /\ ~parent.computed THEN FALSE ELSE TRUE
    ELSE IF parentType \in {"LabeledStatement", "BreakStatement", "ContinueStatement"}
         THEN FALSE
    ELSE IF parentType = "AssignmentPattern"
         THEN IF parent.left = node THEN FALSE ELSE TRUE
    ELSE IF parentType \in {"RestElement", "ArrayPattern", "ObjectPattern"}
         THEN FALSE
    ELSE IF parentType \in {"ForInStatement", "ForOfStatement", "ForStatement"}
         THEN IF IsField(parent, "left", node) THEN FALSE ELSE TRUE
    ELSE IF parentType \in {"TSAsExpression", "TSTypeAssertion",
                            "TSNonNullExpression", "TSInstantiationExpression"}
         THEN parent.expression = node
    ELSE IF parentType \in
            {"TSTypeAnnotation", "TSTypeReference", "TSQualifiedName",
             "TSInterfaceDeclaration", "TSTypeAliasDeclaration",
             "TSModuleDeclaration", "TSParameterProperty", "TSPropertySignature",
             "TSTypeLiteral", "TSUnionType", "TSIntersectionType",
             "TSLiteralType", "TSArrayType", "TSTypeOperator",
             "TSIndexedAccessType", "TSMappedType", "TSFunctionType",
             "TSConstructorType", "TSImportType"}
         THEN FALSE
    ELSE TRUE

\* the ids of the declarators of a VariableDeclaration that bind name
RECURSIVE declaratorIds(_, _)
declaratorIds(declarations, name) ==
    IF declarations = <<>> THEN <<>>
    ELSE LET declarator == Head(declarations) IN
         (IF declarator.id.type = "Identifier" /\ declarator.id.name = name
          THEN <<declarator.id>> ELSE <<>>)
         \o declaratorIds(Tail(declarations), name)

\* `declarationNode` of getTopLevelDeclarationInfo
declarationNodeOf(node) ==
    IF node.type = "ExportNamedDeclaration" /\ node.declaration # Null
    THEN node.declaration ELSE node

RECURSIVE topLevelVariableIds(_, _)
topLevelVariableIds(body, name) ==
    IF body = <<>> THEN <<>>
    ELSE LET declarationNode == declarationNodeOf(Head(body)) IN
         (IF declarationNode.type = "VariableDeclaration"
          THEN declaratorIds(declarationNode.declarations, name) ELSE <<>>)
         \o topLevelVariableIds(Tail(body), name)

getTopLevelDeclarationInfo(program, name) ==
    LET variableIds == topLevelVariableIds(program.body, name)
    IN [hasVariable |-> Len(variableIds) > 0,
        hasFunctionOrClass |->
            \E i \in 1..Len(program.body) :
                LET declarationNode == declarationNodeOf(program.body[i]) IN
                /\ declarationNode.type \in {"FunctionDeclaration", "ClassDeclaration"}
                /\ declarationNode.id # Null
                /\ declarationNode.id.name = name,
        variableIds |-> variableIds]

getVisitorKeys(sourceCode) ==
    IF sourceCode # Null /\ sourceCode.hasVisitorKeys THEN VisitorKeys
    ELSE NoVisitorKeys

\* isExcluded of isIdentifierUsedInternally
isExcluded(node, excluded) ==
    \E i \in 1..Len(excluded) : isSameNodeLocation(node, excluded[i])

\* visit(node, parent) of isIdentifierUsedInternally and its loop over the
\* children of parent: the value of `found` afterwards
RECURSIVE visit(_, _, _, _, _)
RECURSIVE visitChildren(_, _, _, _, _)
visit(node, parent, name, excluded, visitorKeys) ==
    IF node = Null THEN FALSE
    ELSE IF /\ node.type = "Identifier"
            /\ node.name = name
            /\ ~isExcluded(node, excluded)
            /\ isIdentifierReference(node, parent)
         THEN TRUE
    ELSE visitChildren(getChildNodes(node, visitorKeys), node, name, excluded,
                       visitorKeys)

visitChildren(children, parent, name, excluded, visitorKeys) ==
    IF children = <<>> THEN FALSE
    ELSE IF visit(Head(children), parent, name, excluded, visitorKeys) THEN TRUE
    ELSE visitChildren(Tail(children), parent, name, excluded, visitorKeys)

isIdentifierUsedInternally(program, name, excludedNodes, sourceCode) ==
    visit(program, Null, name, excludedNodes, getVisitorKeys(sourceCode))

\* the nodes that visit(node, parent) and the calls under it get past
\* `if (!node || found) return` with, in the order of the calls
RECURSIVE visitOrder(_, _, _, _, _)
RECURSIVE visitOrderOfChildren(_, _, _, _, _)
visitOrder(node, parent, name, excluded, visitorKeys) ==
    IF node = Null THEN <<>>
    ELSE IF /\ node.type = "Identifier"
            /\ node.name = name
            /\ ~isExcluded(node, excluded)
            /\ isIdentifierReference(node, parent)
         THEN <<node>>
    ELSE <<node>>
         \o visitOrderOfChildren(getChildNodes(node, visitorKeys), node, name,
                                 excluded, visitorKeys)

visitOrderOfChildren(children, parent, name, excluded, visitorKeys) ==
    IF children = <<>> THEN <<>>
    ELSE visitOrder(Head(children), parent, name, excluded, visitorKeys)
         \o (IF visit(Head(children), parent, name, excluded, visitorKeys)
             THEN <<>>
             ELSE visitOrderOfChildren(Tail(children), parent, name, excluded,
                                       visitorKeys))

\* scopeManager.globalScope.variables.find((item) => item.name === name),
\* Null when there is no scope manager, no global scope or no such variable
findGlobalVariable(sourceCode, name) ==
    IF sourceCode = Null THEN Null
    ELSE IF sourceCode.scopeManager = Null THEN Null
    ELSE IF sourceCode.scopeManager.globalScope = Null THEN Null
    ELSE LET variables == sourceCode.scopeManager.globalScope.variables
             matching == SelectSeq(variables, LAMBDA item : item.name = name)
         IN IF matching = <<>> THEN Null ELSE Head(matching)

isAllowedDefaultIdentifierExport(node, program, sourceCode) ==
    IF ~isDefaultIdentifierExport(node) THEN FALSE
    ELSE
    LET identifier == node.declaration
        name == identifier.name
        variable == findGlobalVariable(sourceCode, name)
        isVariable1 ==
            variable # Null
            /\ \E i \in 1..Len(variable.defs) : variable.defs[i].type = "Variable"
        isFunctionOrClass1 ==
            variable # Null
            /\ \E i \in 1..Len(variable.defs) :
                   variable.defs[i].type \in {"FunctionName", "ClassName"}
        hasInternalUse1 ==
            variable # Null
            /\ \E i \in 1..Len(variable.references) :
                   ~isSameNodeLocation(variable.references[i].identifier, identifier)
        declarationInfo == getTopLevelDeclarationInfo(program, name)
        fromScope == isVariable1 \/ isFunctionOrClass1
        isVariable == IF fromScope THEN isVariable1 ELSE declarationInfo.hasVariable
        isFunctionOrClass ==
            IF fromScope THEN isFunctionOrClass1
            ELSE declarationInfo.hasFunctionOrClass
        hasInternalUse ==
            IF hasInternalUse1 THEN TRUE
            ELSE IF declarationInfo.hasVariable
                 THEN isIdentifierUsedInternally(
                          program, name,
                          <<identifier>> \o declarationInfo.variableIds, sourceCode)
            ELSE FALSE
    IN IF ~isVariable \/ isFunctionOrClass THEN FALSE ELSE hasInternalUse

-----------------------------------------------------------------------------
(* Rule require-guard-clauses.                                             *)

Report(node, messageId) == [node |-> node, messageId |-> messageId]

\* a variant that exempts an if when either half of the guard shape holds
requireGuardClauses_eitherHalf(node) ==
    LET body == node.body IN
    IF body = Null \/ body.type # "BlockStatement" THEN <<>>
    ELSE LET statements == body.body IN
    IF Len(statements) # 1 THEN <<>>
    ELSE LET onlyStatement == statements[1] IN
    IF onlyStatement.type # "IfStatement" THEN <<>>
    ELSE IF onlyStatement.alternate # Null THEN <<>>
    ELSE IF isEarlyExitStatement(onlyStatement.consequent)
            \/ isNegatedCondition(onlyStatement.test) THEN <<>>
    ELSE <<Report(onlyStatement, "requireGuardClause")>>

\* checkFunctionLike of requireGuardClausesRule: the reports of one call
requireGuardClauses(node) ==
    LET body == node.body IN
    IF body = Null \/ body.type # "BlockStatement" THEN <<>>
    ELSE LET statements == body.body IN
    IF Len(statements) # 1 THEN <<>>
    ELSE LET onlyStatement == statements[1] IN
    IF onlyStatement.type # "IfStatement" THEN <<>>
    ELSE IF onlyStatement.alternate # Null THEN <<>>
    ELSE IF isEarlyExitStatement(onlyStatement.consequent)
            /\ isNegatedCondition(onlyStatement.test) THEN <<>>
    ELSE <<Report(onlyStatement, "requireGuardClause")>>

-----------------------------------------------------------------------------
(* Rule export-code-last.                                                  *)

\* the index of the last top-level statement that is no export, 0 if there
\* is none (the code's -1, its indices being one less)
\* a variant that stops at the first statement that is no export, searching
\* upwards from the start
RECURSIVE firstNonExportFrom(_, _)
firstNonExportFrom(body, i) ==
    IF i > Len(body) THEN 0
    ELSE IF ~isExportNode(body[i]) THEN i
    ELSE firstNonExportFrom(body, i + 1)

lastNonExportIndex_firstNonExport(body, i) == firstNonExportFrom(body, 1)

RECURSIVE lastNonExportIndex(_, _)
lastNonExportIndex(body, i) ==
    IF i = 0 THEN 0
    ELSE IF ~isExportNode(body[i]) THEN i
    ELSE lastNonExportIndex(body, i - 1)

\* the reports of one loop over the body: `context.report({ node, messageId })`
\* on every node the loop does not `continue` past
ReportEach(hits, messageId) ==
    [i \in 1..Len(hits) |-> Report(hits[i], messageId)]

\* a variant of the ordering loop that runs over the whole body
orderingCandidates_wholeBody(body, last) == body

\* the statements the ordering loop `for (let i = 0; i < lastNonExportIndex;
\* i += 1)` looks at
orderingCandidates(body, last) == SubSeq(body, 1, last - 1)

\* a variant of the Program handler whose ordering loop does not `continue`
\* past local export lists and alias exports
exportsLastExceptTypes_noSkip(program, options, sourceCode) ==
    LET body == program.body IN
    IF Len(body) = 0 THEN <<>>
    ELSE
    LET defaultIdentifiers ==
            ReportEach(
                SelectSeq(body,
                    LAMBDA node :
                        /\ isDefaultIdentifierExport(node)
                        /\ ~isAllowedDefaultIdentifierExport(node, program, sourceCode)),
                "noDefaultExportIdentifier")
        exportLists ==
            ReportEach(
                SelectSeq(body,
                    LAMBDA node : isLocalNamedExportList(node) /\ ~isTypeOnlyExport(node)),
                "noExportSpecifiers")
        aliases == ReportEach(SelectSeq(body, isLocalAliasExport), "noExportAlias")
        last == lastNonExportIndex(body, Len(body))
        ordering ==
            IF last = 0 THEN <<>>
            ELSE ReportEach(
                     SelectSeq(orderingCandidates(body, last),
                         LAMBDA node :
                             /\ isExportNode(node)
                             /\ ~isExemptExport(node, options)),
                     "exportsLast")
    IN defaultIdentifiers \o exportLists \o aliases \o ordering

\* the Program handler of exportsLastExceptTypesRule: the reports of one call
exportsLastExceptTypes(program, options, sourceCode) ==
    LET body == program.body IN
    IF Len(body) = 0 THEN <<>>
    ELSE
    LET defaultIdentifiers ==
            ReportEach(
                SelectSeq(body,
                    LAMBDA node :
                        /\ isDefaultIdentifierExport(node)
                        /\ ~isAllowedDefaultIdentifierExport(node, program, sourceCode)),
                "noDefaultExportIdentifier")
        exportLists ==
            ReportEach(
                SelectSeq(body,
                    LAMBDA node : isLocalNamedExportList(node) /\ ~isTypeOnlyExport(node)),
                "noExportSpecifiers")
        aliases == ReportEach(SelectSeq(body, isLocalAliasExport), "noExportAlias")
        last == lastNonExportIndex(body, Len(body))
        ordering ==
            IF last = 0 THEN <<>>
            ELSE ReportEach(
                     SelectSeq(orderingCandidates(body, last),
                         LAMBDA node :
                             /\ isExportNode(node)
                             /\ ~(isLocalNamedExportList(node) /\ ~isTypeOnlyExport(node))
                             /\ ~isLocalAliasExport(node)
                             /\ ~isExemptExport(node, options)),
                     "exportsLast")
    IN defaultIdentifiers \o exportLists \o aliases \o ordering

-----------------------------------------------------------------------------
(* The files handed to require-guard-clauses: one function-like node whose *)
(* body ranges over the shapes the rule distinguishes.                     *)

BaseStatements ==
    {ReturnStatement(Null),
     ThrowStatement(Identifier("err")),
     ExpressionStatement(CallExpression(Identifier("doWork"), <<>>))}

\* what an if's consequent may be: a statement, or blocks nested up to depth d
RECURSIVE Consequents(_)
Consequents(d) ==
    IF d = 0 THEN BaseStatements
    ELSE BaseStatements
         \cup {BlockStatement(<<>>)}
         \cup {BlockStatement(<<s>>) : s \in Consequents(d - 1)}
         \cup {BlockStatement(b) : b \in SeqsFromTo(BaseStatements, 2, MaxBlockLen)}

Tests ==
    {Identifier("x"),
     UnaryExpression("!", Identifier("x")),
     UnaryExpression("-", Identifier("x")),
     CallExpression(Identifier("ok"), <<>>)}

Alternates == {Null, ReturnStatement(Null), BlockStatement(<<>>)}

IfStatements ==
    {IfStatement(t, c, a) : t \in Tests, c \in Consequents(MaxDepth), a \in Alternates}

FunctionBlocks ==
    {BlockStatement(<<>>)}
    \cup {BlockStatement(<<s>>) : s \in IfStatements \cup BaseStatements}
    \cup {BlockStatement(<<s, ReturnStatement(Null)>>) : s \in IfStatements}

\* `x => x` and `x => ok()`: an arrow function whose body is an expression
ExpressionBodies == {Identifier("x"), CallExpression(Identifier("ok"), <<>>)}

\* `function f(x) {...}`, `const f = function (x) {...}`, `const f = (x) => ...`
GuardPrograms ==
    {Program(<<FunctionLike("FunctionDeclaration", Identifier("f"),
                            <<Identifier("x")>>, b, [type |-> "Program"])>>) :
        b \in FunctionBlocks}
    \cup {Program(<<VariableDeclaration("const", <<VariableDeclarator(Identifier("f"),
            FunctionLike(t, Null, <<Identifier("x")>>, b,
                         [type |-> "VariableDeclarator"]))>>)>>) :
            t \in {"FunctionExpression", "ArrowFunctionExpression"},
            b \in FunctionBlocks}
    \cup {Program(<<VariableDeclaration("const", <<VariableDeclarator(Identifier("f"),
            FunctionLike("ArrowFunctionExpression", Null, <<Identifier("x")>>, b,
                         [type |-> "VariableDeclarator"]))>>)>>) :
            b \in ExpressionBodies}

\* context.options[0] ?? {} and getSourceCode(context) of a file that gives
\* neither options nor a source text
NoOptions == [allowReExport |-> "undefined"]

File(program, sourceCode, options) ==
    [program |-> program, sourceCode |-> sourceCode, options |-> options]

GuardFile(program) == File(program, Null, NoOptions)

-----------------------------------------------------------------------------
(* The host calls a handler once for every node of the kind it registered. *)

Call(rule, node) == [rule |-> rule, node |-> node]

RequireGuardClauses ==
    \E node \in NodesOfTypes(file.program, FunctionLikeTypes) :
        /\ Call("require-guard-clauses", node) \notin visited
        /\ reports' = reports \o requireGuardClauses(node)
        /\ visited' = visited \cup {Call("require-guard-clauses", node)}
        /\ UNCHANGED <<file, found, instances>>

InitGuard ==
    /\ \E program \in GuardPrograms : file = GuardFile(program)
    /\ reports = <<>>
    /\ visited = {}
    /\ found = FALSE
    /\ instances = <<>>

NextGuard == RequireGuardClauses

SpecGuard == InitGuard /\ [][NextGuard]_vars

-----------------------------------------------------------------------------
(* Properties of require-guard-clauses.                                    *)

GuardCalls == {c \in visited : c.rule = "require-guard-clauses"}

\* the function's block body is exactly one statement, an if without else
HasSoleIf(fn) ==
    /\ fn.body.type = "BlockStatement"
    /\ Len(fn.body.body) = 1
    /\ fn.body.body[1].type = "IfStatement"
    /\ fn.body.body[1].alternate = Null

SoleIf(fn) == fn.body.body[1]

\* a statement with the blocks that hold exactly one statement peeled off
RECURSIVE Peeled(_)
Peeled(s) ==
    IF s.type = "BlockStatement" /\ Len(s.body) = 1 THEN Peeled(s.body[1]) ELSE s

EarlyExit(s) == Peeled(s).type \in {"ReturnStatement", "ThrowStatement"}

Negated(test) == test.type = "UnaryExpression" /\ test.operator = "!"

\* C1: a function whose sole body statement is an if without alternate, with
\* a non-negated test or a negated test whose consequent is not an early
\* exit, gets exactly one report, and that report is on the if statement.
C1_WrapperIfReportedOnce ==
    \A c \in GuardCalls :
        (/\ HasSoleIf(c.node)
         /\ \/ ~Negated(SoleIf(c.node).test)
            \/ ~EarlyExit(SoleIf(c.node).consequent))
        => reports = <<Report(SoleIf(c.node), "requireGuardClause")>>

\* the negated if whose consequent does work has been checked and reported
C1_Witness ==
    \E c \in GuardCalls :
        /\ HasSoleIf(c.node)
        /\ Negated(SoleIf(c.node).test)
        /\ ~EarlyExit(SoleIf(c.node).consequent)
        /\ Len(reports) = 1

IfNotX(consequent) ==
    IfStatement(UnaryExpression("!", Identifier("x")), consequent, Null)

DoWork == ExpressionStatement(CallExpression(Identifier("doWork"), <<>>))

\* C2: a sole if without alternate is exempt exactly when its test is a
\* negation and its consequent is an early exit; `if (!x) return;` and
\* `if (!x) { return; }` are never reported, `if (!x) { doWork(); }`,
\* `if (!x) { doWork(); return; }` and `if (x) return;` are.
C2_ExemptIffNegatedEarlyExit ==
    \A c \in GuardCalls :
        HasSoleIf(c.node) =>
            /\ (reports = <<>>) <=>
                   (Negated(SoleIf(c.node).test) /\ EarlyExit(SoleIf(c.node).consequent))
            /\ SoleIf(c.node) \in
                   {IfNotX(ReturnStatement(Null)),
                    IfNotX(BlockStatement(<<ReturnStatement(Null)>>))}
               => reports = <<>>
            /\ SoleIf(c.node) \in
                   {IfNotX(BlockStatement(<<DoWork>>)),
                    IfNotX(BlockStatement(<<DoWork, ReturnStatement(Null)>>)),
                    IfStatement(Identifier("x"), ReturnStatement(Null), Null)}
               => Len(reports) = 1

\* `if (!x) { { throw err; } }` has been checked and not reported
C2_Witness ==
    \E c \in GuardCalls :
        /\ HasSoleIf(c.node)
        /\ SoleIf(c.node) =
              IfNotX(BlockStatement(<<BlockStatement(<<ThrowStatement(Identifier("err"))>>)>>))
        /\ reports = <<>>

-----------------------------------------------------------------------------
(* Rule no-swallowed-catch.  A source text is a sequence of characters.    *)

Whitespace == {" ", "\n"}

\* String.prototype.trim
RECURSIVE trimStart(_)
trimStart(text) ==
    IF text # <<>> /\ Head(text) \in Whitespace THEN trimStart(Tail(text)) ELSE text

RECURSIVE trimEnd(_)
trimEnd(text) ==
    IF text # <<>> /\ text[Len(text)] \in Whitespace
    THEN trimEnd(SubSeq(text, 1, Len(text) - 1)) ELSE text

trim(text) == trimEnd(trimStart(text))

\* the least index i >= from with text[i] = "*" and text[i+1] = "/", or 0
RECURSIVE indexOfBlockEnd(_, _)
indexOfBlockEnd(text, from) ==
    IF from + 1 > Len(text) THEN 0
    ELSE IF text[from] = "*" /\ text[from + 1] = "/" THEN from
    ELSE indexOfBlockEnd(text, from + 1)

\* inner.replace(/\/\*[\s\S]*?\*\//g, "")
RECURSIVE withoutBlockComments(_)
withoutBlockComments(text) ==
    IF text = <<>> THEN <<>>
    ELSE IF Len(text) >= 2 /\ text[1] = "/" /\ text[2] = "*"
              /\ indexOfBlockEnd(text, 3) # 0
         THEN withoutBlockComments(
                  SubSeq(text, indexOfBlockEnd(text, 3) + 2, Len(text)))
    ELSE <<Head(text)>> \o withoutBlockComments(Tail(text))

\* the text from its first line break on: what /[^\n\r]*/ leaves
RECURSIVE fromLineBreak(_)
fromLineBreak(text) ==
    IF text = <<>> \/ Head(text) = "\n" THEN text ELSE fromLineBreak(Tail(text))

\* withoutBlockComments.replace(/\/\/[^\n\r]*/g, "")
RECURSIVE withoutLineComments(_)
withoutLineComments(text) ==
    IF text = <<>> THEN <<>>
    ELSE IF Len(text) >= 2 /\ text[1] = "/" /\ text[2] = "/"
         THEN withoutLineComments(fromLineBreak(text))
    ELSE <<Head(text)>> \o withoutLineComments(Tail(text))

\* sourceCode.getText(node): the node's span of the file's text
getText(sourceCode, node) ==
    SubSeq(sourceCode.text, node.range[1] + 1, node.range[2])

blockHasOnlyComments(block, sourceCode) ==
    IF sourceCode = Null THEN Len(block.body) = 0
    ELSE LET text == getText(sourceCode, block)
             inner == trim(SubSeq(text, 2, Len(text) - 1))
         IN IF Len(inner) = 0 THEN TRUE
            ELSE Len(trim(withoutLineComments(withoutBlockComments(inner)))) = 0

\* the CatchClause handler of noSwallowedCatchRule: the reports of one call
noSwallowedCatch(node, sourceCode) ==
    LET body == node.body IN
    IF body = Null \/ body.type # "BlockStatement" THEN <<>>
    ELSE LET isStructurallyEmpty == Len(body.body) = 0 IN
    IF ~isStructurallyEmpty /\ ~blockHasOnlyComments(body, sourceCode) THEN <<>>
    ELSE <<Report(body, "noSwallowedCatch")>>

-----------------------------------------------------------------------------
(* The files handed to no-swallowed-catch: `try {} catch (e) {...}` where  *)
(* the text between the braces is made of comment openers and closers,     *)
(* line breaks and statements `a;`, and the block's statement list is what *)
(* the parser makes of that text.                                          *)

Pieces == {<<"/", "/">>, <<"/", "*">>, <<"*", "/">>, <<"\n">>, <<"a", ";">>}

RECURSIVE Flatten(_)
Flatten(pieces) ==
    IF pieces = <<>> THEN <<>> ELSE Head(pieces) \o Flatten(Tail(pieces))

\* the characters the parser's tokenizer sees outside comments; mode is
\* "code", "line" (in a // comment) or "block" (in a /* comment); a block
\* comment left open yields the marker "unterminated"
RECURSIVE CodeChars(_, _)
CodeChars(text, mode) ==
    IF text = <<>> THEN IF mode = "block" THEN <<"unterminated">> ELSE <<>>
    ELSE IF mode = "code"
         THEN IF Len(text) >= 2 /\ text[1] = "/" /\ text[2] = "/"
              THEN CodeChars(SubSeq(text, 3, Len(text)), "line")
              ELSE IF Len(text) >= 2 /\ text[1] = "/" /\ text[2] = "*"
              THEN CodeChars(SubSeq(text, 3, Len(text)), "block")
              ELSE <<Head(text)>> \o CodeChars(Tail(text), "code")
    ELSE IF mode = "line"
         THEN IF Head(text) = "\n"
              THEN <<"\n">> \o CodeChars(Tail(text), "code")
              ELSE CodeChars(Tail(text), "line")
    ELSE IF Len(text) >= 2 /\ text[1] = "*" /\ text[2] = "/"
         THEN CodeChars(SubSeq(text, 3, Len(text)), "code")
         ELSE CodeChars(Tail(text), "block")

\* the text parses: outside comments there is nothing but statements
Parses(text) ==
    LET code == CodeChars(text, "code")
    IN \A i \in 1..Len(code) : code[i] \in {"a", ";", "\n"}

\* the statements the parser finds in the text, one per `a;`
ParsedStatements(text) ==
    LET code == SelectSeq(CodeChars(text, "code"), LAMBDA c : c = ";")
    IN [i \in 1..Len(code) |-> ExpressionStatement(Identifier("a"))]

BlockTexts ==
    {t \in {Flatten(ps) : ps \in SeqsUpTo(Pieces, MaxPieces)} : Parses(t)}

TryPrefix == <<"t", "r", "y", "{", "}", "c", "a", "t", "c", "h", "(", "e", ")">>

CatchClause(param, body) == [type |-> "CatchClause", param |-> param, body |-> body]

TryStatement(block, handler, finalizer) ==
    [type |-> "TryStatement", block |-> block, handler |-> handler,
     finalizer |-> finalizer]

\* a block that carries its span in the file's text
BlockAt(body, range) == [type |-> "BlockStatement", body |-> body, range |-> range]

\* `try {} catch (e) {<inner>}`
CatchProgram(inner) ==
    Program(<<TryStatement(
        BlockAt(<<>>, <<3, 5>>),
        CatchClause(Identifier("e"),
                    BlockAt(ParsedStatements(inner),
                            <<Len(TryPrefix), Len(TryPrefix) + Len(inner) + 2>>)),
        Null)>>)

\* getSourceCode(context): the text, whether the host supplies visitorKeys,
\* and the scope manager (Null when the host supplies none)
SourceCode(text, hasVisitorKeys, scopeManager) ==
    [text |-> text, hasVisitorKeys |-> hasVisitorKeys,
     scopeManager |-> scopeManager]

\* the file of a catch block, handed over with its source text or without
CatchFile(inner, hasSource) ==
    File(CatchProgram(inner),
         IF hasSource
         THEN SourceCode(TryPrefix \o <<"{">> \o inner \o <<"}">>, TRUE, Null)
         ELSE Null,
         NoOptions)

NoSwallowedCatch ==
    \E node \in NodesOfTypes(file.program, {"CatchClause"}) :
        /\ Call("no-swallowed-catch", node) \notin visited
        /\ reports' = reports \o noSwallowedCatch(node, file.sourceCode)
        /\ visited' = visited \cup {Call("no-swallowed-catch", node)}
        /\ UNCHANGED <<file, found, instances>>

InitCatch ==
    /\ \E inner \in BlockTexts, hasSource \in BOOLEAN :
           file = CatchFile(inner, hasSource)
    /\ reports = <<>>
    /\ visited = {}
    /\ found = FALSE
    /\ instances = <<>>

NextCatch == NoSwallowedCatch

SpecCatch == InitCatch /\ [][NextCatch]_vars

-----------------------------------------------------------------------------
(* Properties of no-swallowed-catch.                                       *)

CatchCalls == {c \in visited : c.rule = "no-swallowed-catch"}

\* the words between the braces of the catch block, comments left out
CodeBetweenBraces(block) ==
    LET text == getText(file.sourceCode, block)
    IN SelectSeq(CodeChars(SubSeq(text, 2, Len(text) - 1), "code"),
                 LAMBDA c : c \notin Whitespace)

\* C3: a catch clause is reported if its block has no statement or its
\* text without braces and comments is blank, and a catch block with a
\* statement outside comments is never reported.
C3_CatchReportedIffEmpty ==
    \A c \in CatchCalls :
        /\ Len(c.node.body.body) = 0 => reports = <<Report(c.node.body, "noSwallowedCatch")>>
        /\ (file.sourceCode # Null /\ CodeBetweenBraces(c.node.body) = <<>>)
               => reports = <<Report(c.node.body, "noSwallowedCatch")>>
        /\ Len(c.node.body.body) > 0 => reports = <<>>

\* C3, first half: an empty or comment-only catch block is reported
C3_EmptyCatchReported ==
    \A c \in CatchCalls :
        /\ Len(c.node.body.body) = 0 => reports = <<Report(c.node.body, "noSwallowedCatch")>>
        /\ (file.sourceCode # Null /\ CodeBetweenBraces(c.node.body) = <<>>)
               => reports = <<Report(c.node.body, "noSwallowedCatch")>>

-----------------------------------------------------------------------------
(* The files handed to export-code-last.  The text of such a file is a     *)
(* sequence of lines, one top-level statement each; ParseLine is the tree  *)
(* the parser makes of the statement on line i, whose span is              *)
(* [10 (i - 1), 10 i).  TEMPLATE(...) stands for a template literal, whose *)
(* backquotes a TLA+ string cannot hold.                                   *)

IdAt(name, b, offset) == At(Identifier(name), <<b + offset, b + offset + 1>>)

Property(key, value, computed, shorthand, parent) ==
    [type |-> "Property", key |-> key, value |-> value, computed |-> computed,
     shorthand |-> shorthand, parent |-> parent]

ConstExport(b, declarators, exportKind) ==
    ExportNamedDeclaration(VariableDeclaration("const", declarators), <<>>, Null,
                           exportKind)

ParseLine(line, i) ==
    LET b == 10 * (i - 1)
        one == Literal("number", "1")
        module == Literal("string", "m")
        emptyFunction(id, parent) ==
            FunctionLike("FunctionDeclaration", id, <<>>, BlockStatement(<<>>),
                         [type |-> parent])
        declare(name, init) == <<VariableDeclarator(IdAt(name, b, 7), init)>>
        y == IdAt("y", b, 8)
        member(object, property) ==
            MemberExpression(IdAt(object, b, 8), IdAt(property, b, 9), FALSE)
        specifier(name, offset, exportKind) ==
            ExportSpecifier(IdAt(name, b, offset), IdAt(name, b, offset), exportKind)
        node ==
          CASE line = "const a = 1;" ->
                 VariableDeclaration("const", declare("a", one))
            [] line = "function g() {}" ->
                 emptyFunction(IdAt("g", b, 7), "Program")
            [] line = "export function f() {}" ->
                 ExportNamedDeclaration(
                     emptyFunction(IdAt("f", b, 7), "ExportNamedDeclaration"),
                     <<>>, Null, "value")
            [] line = "export class C {}" ->
                 ExportNamedDeclaration(ClassDeclaration(IdAt("C", b, 7)),
                                        <<>>, Null, "value")
            [] line = "export default function () {}" ->
                 ExportDefaultDeclaration(
                     emptyFunction(Null, "ExportDefaultDeclaration"))
            [] line = "export default a;" ->
                 ExportDefaultDeclaration(IdAt("a", b, 8))
            [] line = "export default x;" ->
                 ExportDefaultDeclaration(IdAt("x", b, 8))
            [] line = "const x = 1;" ->
                 VariableDeclaration("const", declare("x", one))
            [] line = "let x;" ->
                 VariableDeclaration("let", declare("x", Null))
            [] line = "export const x = 1;" ->
                 ConstExport(b, declare("x", one), "value")
            [] line = "function x() {}" ->
                 emptyFunction(IdAt("x", b, 7), "Program")
            [] line = "class x {}" ->
                 ClassDeclaration(IdAt("x", b, 7))
            [] line = "x();" ->
                 ExpressionStatement(CallExpression(IdAt("x", b, 0), <<>>))
            [] line = "const y = x;" ->
                 VariableDeclaration("const", declare("y", IdAt("x", b, 8)))
            [] line = "o.x;" ->
                 ExpressionStatement(member("o", "x"))
            [] line = "function f(x) {}" ->
                 FunctionLike("FunctionDeclaration", IdAt("f", b, 7),
                              <<IdAt("x", b, 8)>>, BlockStatement(<<>>),
                              [type |-> "Program"])
            [] line = "function g() { const x = 2; return x; }" ->
                 FunctionLike("FunctionDeclaration", IdAt("g", b, 7), <<>>,
                     BlockStatement(
                         <<VariableDeclaration("const",
                               <<VariableDeclarator(IdAt("x", b, 8), one)>>),
                           ReturnStatement(IdAt("x", b, 9))>>),
                     [type |-> "Program"])
            [] line = "export { x };" ->
                 ExportNamedDeclaration(Null, <<specifier("x", 7, "value")>>, Null,
                                        "value")
            [] line = "export const X = 1;" ->
                 ConstExport(b, declare("X", one), "value")
            [] line = "export const X = (1);" ->
                 ConstExport(b, declare("X", ParenthesizedExpression(one)), "value")
            [] line = "export const N = -1;" ->
                 ConstExport(b, declare("N", UnaryExpression("-", one)), "value")
            [] line = "export const T = TEMPLATE(t);" ->
                 ConstExport(b, declare("T",
                     TemplateLiteral(<<TemplateElement("t")>>, <<>>)), "value")
            [] line = "export const T = TEMPLATE(t${y});" ->
                 ConstExport(b, declare("T",
                     TemplateLiteral(<<TemplateElement("t"), TemplateElement("")>>,
                                     <<y>>)), "value")
            [] line = "export const X = { k: 1 };" ->
                 ConstExport(b, declare("X",
                     ObjectExpression(<<Property(IdAt("k", b, 8), one, FALSE, FALSE,
                                                 [type |-> "ObjectExpression"])>>)),
                     "value")
            [] line = "export const A = 1, B = {};" ->
                 ConstExport(b,
                     <<VariableDeclarator(IdAt("A", b, 7), one),
                       VariableDeclarator(IdAt("B", b, 8), ObjectExpression(<<>>))>>,
                     "value")
            [] line = "export let X = 1;" ->
                 ExportNamedDeclaration(
                     VariableDeclaration("let", declare("X", one)), <<>>, Null, "value")
            [] line = "export const x = y;" ->
                 ConstExport(b, declare("x", y), "value")
            [] line = "export const x = (y);" ->
                 ConstExport(b, declare("x", ParenthesizedExpression(y)), "value")
            [] line = "export const x = o.y;" ->
                 ConstExport(b, declare("x", member("o", "y")), "value")
            [] line = "export const x = o?.y;" ->
                 ConstExport(b, declare("x", ChainExpression(member("o", "y"))),
                             "value")
            [] line = "export declare const x = E.A;" ->
                 ConstExport(b, declare("x", member("E", "A")), "type")
            [] line = "export type T = string;" ->
                 ExportNamedDeclaration(TSTypeAliasDeclaration(IdAt("T", b, 7)),
                                        <<>>, Null, "type")
            [] line = "export type { T };" ->
                 ExportNamedDeclaration(Null, <<specifier("T", 7, "value")>>, Null,
                                        "type")
            [] line = "export { type T };" ->
                 ExportNamedDeclaration(Null, <<specifier("T", 7, "type")>>, Null,
                                        "value")
            [] line = "export { type T, b };" ->
                 ExportNamedDeclaration(Null,
                     <<specifier("T", 7, "type"), specifier("b", 8, "value")>>,
                     Null, "value")
            [] line = "export { b };" ->
                 ExportNamedDeclaration(Null, <<specifier("b", 7, "value")>>, Null,
                                        "value")
            [] line = "export { b } from 'm';" ->
                 ExportNamedDeclaration(Null, <<specifier("b", 7, "value")>>, module,
                                        "value")
            [] line = "export type { T } from 'm';" ->
                 ExportNamedDeclaration(Null, <<specifier("T", 7, "value")>>, module,
                                        "type")
            [] line = "export * from 'm';" ->
                 ExportAllDeclaration(Null, module, "value")
    IN At(node, <<b, b + 10>>)

RECURSIVE ParseLines(_, _)
ParseLines(text, i) ==
    IF i > Len(text) THEN <<>>
    ELSE <<ParseLine(text[i], i)>> \o ParseLines(text, i + 1)

Parse(text) == Program(ParseLines(text, 1))

OrderLines ==
    {"const a = 1;", "export function f() {}", "export const X = 1;",
     "export { b };", "export const x = y;", "export { b } from 'm';",
     "export default function () {}"}

ExportLines ==
    OrderLines
    \cup {"function g() {}", "export class C {}", "export default a;",
          "export const X = (1);", "export const N = -1;",
          "export const T = TEMPLATE(t);", "export const T = TEMPLATE(t${y});",
          "export const X = { k: 1 };", "export const A = 1, B = {};",
          "export let X = 1;", "export const x = (y);", "export const x = o.y;",
          "export const x = o?.y;", "export declare const x = E.A;",
          "export type T = string;", "export type { T };", "export { type T };",
          "export { type T, b };", "export * from 'm';",
          "export type { T } from 'm';"}

\* context.options[0]: absent, { allowReExport: false }, { allowReExport: true }
ExportOptions == {[allowReExport |-> v] : v \in {"undefined", "false", "true"}}

ExportTexts == SeqsUpTo(OrderLines, MaxBody) \cup SeqsUpTo(ExportLines, MaxLines)

ExportFile(text, options) ==
    File(Parse(text), SourceCode(text, TRUE, Null), options)

ExportCodeLast ==
    /\ Call("export-code-last", file.program) \notin visited
    /\ reports' = reports
                  \o exportsLastExceptTypes(file.program, file.options, file.sourceCode)
    /\ visited' = visited \cup {Call("export-code-last", file.program)}
    /\ UNCHANGED <<file, found, instances>>

InitExport ==
    /\ \E text \in ExportTexts, options \in ExportOptions :
           file = ExportFile(text, options)
    /\ reports = <<>>
    /\ visited = {}
    /\ found = FALSE
    /\ instances = <<>>

NextExport == ExportCodeLast

SpecExport == InitExport /\ [][NextExport]_vars

-----------------------------------------------------------------------------
(* Properties of export-code-last, stated over the lines of the file.      *)

ExportDone == Call("export-code-last", file.program) \in visited

Lines == file.sourceCode.text

NonExportLines == {"const a = 1;", "function g() {}"}

TypeOnlyLines ==
    {"export type T = string;", "export type { T };", "export { type T };",
     "export declare const x = E.A;", "export type { T } from 'm';"}

PrimitiveConstLines ==
    {"export const X = 1;", "export const X = (1);", "export const N = -1;",
     "export const T = TEMPLATE(t);"}

ReExportLines == {"export { b } from 'm';", "export * from 'm';"}

\* local export lists that are not type-only
LocalListLines == {"export { b };", "export { type T, b };"}

TypeOnlyListLines == {"export type { T };", "export { type T };"}

AliasLines ==
    {"export const x = y;", "export const x = (y);", "export const x = o.y;",
     "export const x = o?.y;", "export declare const x = E.A;"}

\* `export const` with an initializer that is no primitive literal
NonPrimitiveConstLines ==
    {"export const X = { k: 1 };", "export const A = 1, B = {};",
     "export const T = TEMPLATE(t${y});", "export const x = y;",
     "export const x = (y);", "export const x = o.y;", "export const x = o?.y;",
     "export declare const x = E.A;"}

IsExportLine(i) == Lines[i] \notin NonExportLines

IsExemptLine(i) ==
    \/ Lines[i] \in TypeOnlyLines \cup PrimitiveConstLines
    \/ Lines[i] \in ReExportLines /\ file.options.allowReExport = "true"

NonExportAfter(i) == \E j \in (i + 1)..Len(Lines) : ~IsExportLine(j)

\* how often statement i was reported with the message
TimesReported(i, messageId) ==
    Cardinality({k \in 1..Len(reports) :
                    reports[k] = Report(file.program.body[i], messageId)})

ReportedAtAll(i) ==
    \E k \in 1..Len(reports) : reports[k].node = file.program.body[i]

OrderingReports == SelectSeq(reports, LAMBDA r : r.messageId = "exportsLast")

IsDeclareExportDeclare ==
    /\ Len(Lines) = 4
    /\ ~IsExportLine(1) /\ IsExportLine(2) /\ ~IsExportLine(3) /\ IsExportLine(4)

\* C4 as claimed: a non-exempt export at index i is reported for ordering
\* exactly when a non-export statement follows it; in [declare A, export B,
\* declare C, export D] with B not exempt exactly B is reported for ordering.
C4_Original ==
    ExportDone =>
        /\ \A i \in 1..Len(Lines) :
               (IsExportLine(i) /\ ~IsExemptLine(i))
               => (TimesReported(i, "exportsLast") = 1 <=> NonExportAfter(i))
        /\ (IsDeclareExportDeclare /\ ~IsExemptLine(2))
               => OrderingReports = <<Report(file.program.body[2], "exportsLast")>>

\* C4, amended: a non-exempt export at index i that is neither a local
\* export list nor an alias export is reported for ordering (once) exactly
\* when a non-export statement follows it; in [declare A, export B,
\* declare C, export D] with such a B exactly B is reported for ordering.
C4_OrderingIffNonExportFollows ==
    ExportDone =>
        /\ \A i \in 1..Len(Lines) :
               (/\ IsExportLine(i) /\ ~IsExemptLine(i)
                /\ Lines[i] \notin LocalListLines \cup AliasLines)
               => /\ TimesReported(i, "exportsLast") = 1 <=> NonExportAfter(i)
                  /\ TimesReported(i, "exportsLast") = 0 <=> ~NonExportAfter(i)
        /\ (/\ IsDeclareExportDeclare /\ ~IsExemptLine(2)
            /\ Lines[2] \notin LocalListLines \cup AliasLines)
               => OrderingReports = <<Report(file.program.body[2], "exportsLast")>>

\* [declare, export function, declare, export function] has been checked
C4_Witness ==
    /\ ExportDone
    /\ Lines = <<"const a = 1;", "export function f() {}", "const a = 1;",
                 "export function f() {}">>
    /\ OrderingReports = <<Report(file.program.body[2], "exportsLast")>>

\* C5 as claimed: an export after the last non-export statement is not
\* reported by the rule, and a file of exports only gets no report.
C5_Original ==
    ExportDone =>
        /\ \A i \in 1..Len(Lines) :
               (IsExportLine(i) /\ ~NonExportAfter(i)) => ~ReportedAtAll(i)
        /\ (\A i \in 1..Len(Lines) : IsExportLine(i)) => reports = <<>>

\* C5, amended: an export after the last non-export statement is not
\* reported for ordering, and a file of exports only gets no ordering
\* report (local export lists, alias exports and rejected default exports
\* of an identifier are still reported there).
C5_NoOrderingReportAfterLastNonExport ==
    ExportDone =>
        /\ \A i \in 1..Len(Lines) :
               (IsExportLine(i) /\ ~NonExportAfter(i))
               => TimesReported(i, "exportsLast") = 0
        /\ (\A i \in 1..Len(Lines) : IsExportLine(i)) => OrderingReports = <<>>

\* a file with a declaration followed by two exports, the first reported
\* as a local list, has been checked
C5_Witness ==
    /\ ExportDone
    /\ Lines = <<"const a = 1;", "export { b };", "export function f() {}">>
    /\ reports = <<Report(file.program.body[2], "noExportSpecifiers")>>

\* C6 as claimed: an `export const` of primitive literals is never reported,
\* and an `export const` with a non-primitive initializer that precedes a
\* non-export statement is reported for ordering.
C6_Original ==
    ExportDone =>
        \A i \in 1..Len(Lines) :
            /\ Lines[i] \in PrimitiveConstLines => ~ReportedAtAll(i)
            /\ (Lines[i] \in NonPrimitiveConstLines /\ NonExportAfter(i))
                   => TimesReported(i, "exportsLast") = 1

\* C6, amended: an `export const` of primitive literals is never reported,
\* and an `export const` with a non-primitive initializer that precedes a
\* non-export statement is reported for ordering unless it is an alias
\* export (reported as such instead) or type-only.
C6_PrimitiveConstExempt ==
    ExportDone =>
        \A i \in 1..Len(Lines) :
            /\ Lines[i] \in PrimitiveConstLines => ~ReportedAtAll(i)
            /\ (/\ Lines[i] \in NonPrimitiveConstLines \ (AliasLines \cup TypeOnlyLines)
                /\ NonExportAfter(i))
                   => TimesReported(i, "exportsLast") = 1

\* `export const A = 1, B = {};` before a declaration has been reported
C6_Witness ==
    /\ ExportDone
    /\ Lines = <<"export const A = 1, B = {};", "const a = 1;">>
    /\ TimesReported(1, "exportsLast") = 1

\* C7: a type-only export is never reported, under any message, anywhere.
C7_TypeOnlyNeverReported ==
    ExportDone =>
        \A i \in 1..Len(Lines) : Lines[i] \in TypeOnlyLines => ~ReportedAtAll(i)

\* C8: a local export list is reported wherever it stands, unless it is
\* type-only.
C8_LocalListReported ==
    ExportDone =>
        \A i \in 1..Len(Lines) :
            /\ Lines[i] \in LocalListLines
                   => TimesReported(i, "noExportSpecifiers") = 1
            /\ Lines[i] \in TypeOnlyListLines
                   => TimesReported(i, "noExportSpecifiers") = 0

\* `export { b };` after the last declaration has been reported
C8_Witness ==
    /\ ExportDone
    /\ Lines = <<"const a = 1;", "export { b };">>
    /\ TimesReported(2, "noExportSpecifiers") = 1

-----------------------------------------------------------------------------
(* The files handed to export-code-last that export an identifier by       *)
(* default.  Each is a text of DefaultLines together with what the host    *)
(* supplies as sourceCode.scopeManager: nothing, the table of an analysis  *)
(* of the file as a module (whose global scope holds no top-level          *)
(* binding), or the table of an analysis as a script (whose global scope   *)
(* holds them).                                                            *)

\* lines of a file that exports x by default
MaxDefault == 3

VariableLines == {"const x = 1;", "let x;", "export const x = 1;"}

FunctionOrClassLines == {"function x() {}", "class x {}"}

QualifyingUseLines ==
    {"x();", "const y = x;", "function g() { const x = 2; return x; }"}

OtherUseLines == {"o.x;", "function f(x) {}", "export { x };"}

DefaultLines ==
    VariableLines \cup FunctionOrClassLines \cup QualifyingUseLines
    \cup OtherUseLines \cup {"export default x;"}

CountLines(text, lines) == Cardinality({i \in 1..Len(text) : text[i] \in lines})

\* a file declares x at most once at the top level and has at most one
\* default export
DefaultTexts ==
    {text \in SeqsUpTo(DefaultLines, MaxDefault) :
        /\ CountLines(text, VariableLines \cup FunctionOrClassLines) <= 1
        /\ CountLines(text, {"export default x;"}) <= 1}

\* variable.defs of the binding that the statement on a line makes
HostDefs(line) ==
    IF line \in VariableLines THEN <<[type |-> "Variable"]>>
    ELSE IF line = "function x() {}" THEN <<[type |-> "FunctionName"]>>
    ELSE IF line = "class x {}" THEN <<[type |-> "ClassName"]>>
    ELSE <<>>

\* the references to the top-level x that the host's scope analysis records
\* on line i: reads, and the write of a declarator's initializer
HostReferences(line, i) ==
    LET b == 10 * (i - 1) IN
    IF line \in {"const x = 1;", "export const x = 1;", "export { x };"}
    THEN <<[identifier |-> IdAt("x", b, 7)]>>
    ELSE IF line \in {"const y = x;", "export default x;"}
    THEN <<[identifier |-> IdAt("x", b, 8)]>>
    ELSE IF line = "x();" THEN <<[identifier |-> IdAt("x", b, 0)]>>
    ELSE <<>>

RECURSIVE HostDefsOf(_, _)
HostDefsOf(text, i) ==
    IF i > Len(text) THEN <<>>
    ELSE HostDefs(text[i]) \o HostDefsOf(text, i + 1)

RECURSIVE HostReferencesOf(_, _)
HostReferencesOf(text, i) ==
    IF i > Len(text) THEN <<>>
    ELSE HostReferences(text[i], i) \o HostReferencesOf(text, i + 1)

\* the bindings other than x that a line adds to the scope
HostOthers(line) ==
    IF line = "const y = x;"
    THEN <<[name |-> "y", defs |-> <<[type |-> "Variable"]>>, references |-> <<>>]>>
    ELSE IF line = "function f(x) {}"
    THEN <<[name |-> "f", defs |-> <<[type |-> "FunctionName"]>>, references |-> <<>>]>>
    ELSE IF line = "function g() { const x = 2; return x; }"
    THEN <<[name |-> "g", defs |-> <<[type |-> "FunctionName"]>>, references |-> <<>>]>>
    ELSE <<>>

RECURSIVE HostOthersOf(_, _)
HostOthersOf(text, i) ==
    IF i > Len(text) THEN <<>>
    ELSE HostOthers(text[i]) \o HostOthersOf(text, i + 1)

\* scopeManager.globalScope.variables after an analysis as a script
ScriptVariables(text) ==
    HostOthersOf(text, 1)
    \o (IF HostDefsOf(text, 1) = <<>> THEN <<>>
        ELSE <<[name |-> "x", defs |-> HostDefsOf(text, 1),
                references |-> HostReferencesOf(text, 1)]>>)

ScopeManager(variables) == [globalScope |-> [variables |-> variables]]

Hosts == {"none", "module", "script"}

HostScopeManager(host, text) ==
    IF host = "none" THEN Null
    ELSE IF host = "module" THEN ScopeManager(<<>>)
    ELSE ScopeManager(ScriptVariables(text))

DefaultFile(text, host) ==
    File(Parse(text), SourceCode(text, TRUE, HostScopeManager(host, text)),
         NoOptions)

InitDefault ==
    /\ \E text \in DefaultTexts, host \in Hosts : file = DefaultFile(text, host)
    /\ reports = <<>>
    /\ visited = {}
    /\ found = FALSE
    /\ instances = <<>>

SpecDefault == InitDefault /\ [][NextExport]_vars

-----------------------------------------------------------------------------
(* Properties of the default export of an identifier.                      *)

HasLine(lines) == \E i \in 1..Len(Lines) : Lines[i] \in lines

DefaultExportRejected(i) == TimesReported(i, "noDefaultExportIdentifier") = 1

DefaultExportAccepted(i) == TimesReported(i, "noDefaultExportIdentifier") = 0

\* C10: a default export of a bare identifier is accepted if and only if
\* the name is a plain top-level variable, not a function or class, and has
\* a qualifying use elsewhere in the file; `const x = 1; export default x;`
\* is rejected.
C10_DefaultIdentifierAcceptedIffUsedVariable ==
    ExportDone =>
        \A i \in 1..Len(Lines) :
            Lines[i] = "export default x;"
            => /\ DefaultExportAccepted(i)
                  <=> /\ HasLine(VariableLines)
                      /\ ~HasLine(FunctionOrClassLines)
                      /\ HasLine(QualifyingUseLines)
               /\ DefaultExportRejected(i) \/ DefaultExportAccepted(i)

\* the same without a binding table of the host that holds x: the verdict
\* comes from the scan of the program
C10_AcceptedIffUsedVariableByScan ==
    (ExportDone /\ findGlobalVariable(file.sourceCode, "x") = Null)
    => C10_DefaultIdentifierAcceptedIffUsedVariable

\* `const x = 1; export default x;` has been accepted with the host's table
C10_AcceptedUnused ==
    /\ ExportDone
    /\ Lines = <<"const x = 1;", "export default x;">>
    /\ findGlobalVariable(file.sourceCode, "x") # Null
    /\ reports = <<>>

-----------------------------------------------------------------------------
(* Properties of the allowReExport option.                                 *)

\* wildcard re-exports and named re-exports with a source
RemoteLines == ReExportLines \cup {"export type { T } from 'm';"}

\* C11 as claimed: a wildcard or remote-sourced named re-export before the
\* last non-export statement is exempt from the ordering report exactly
\* when allowReExport is true.
C11_Original ==
    ExportDone =>
        \A i \in 1..Len(Lines) :
            (Lines[i] \in RemoteLines /\ NonExportAfter(i))
            => (TimesReported(i, "exportsLast") = 0
                   <=> file.options.allowReExport = "true")

\* C11, amended: a wildcard or remote-sourced named re-export that is not
\* type-only and stands before the last non-export statement is exempt from
\* the ordering report exactly when allowReExport is true, and is reported
\* for ordering (once) when the option is absent or false; a type-only
\* re-export is exempt whatever the option.
C11_ReExportExemptIffAllowed ==
    ExportDone =>
        \A i \in 1..Len(Lines) :
            /\ (Lines[i] \in ReExportLines /\ NonExportAfter(i))
               => /\ TimesReported(i, "exportsLast") = 0
                         <=> file.options.allowReExport = "true"
                  /\ TimesReported(i, "exportsLast") = 1
                         <=> file.options.allowReExport \in {"undefined", "false"}
            /\ Lines[i] \in RemoteLines \ ReExportLines
               => TimesReported(i, "exportsLast") = 0

\* `export * from 'm';` before a declaration has been reported without the
\* option
C11_Witness ==
    /\ ExportDone
    /\ Lines = <<"export * from 'm';", "const a = 1;">>
    /\ file.options.allowReExport = "undefined"
    /\ reports = <<Report(file.program.body[1], "exportsLast")>>

\* the same file has been accepted with allowReExport: true
C11_WitnessAllowed ==
    /\ ExportDone
    /\ Lines = <<"export * from 'm';", "const a = 1;">>
    /\ file.options.allowReExport = "true"
    /\ reports = <<>>

-----------------------------------------------------------------------------
(* Rule no-empty-wrappers.                                                 *)

AwaitExpression(argument) == [type |-> "AwaitExpression", argument |-> argument]

SpreadElement(argument) == [type |-> "SpreadElement", argument |-> argument]

RestElement(argument) == [type |-> "RestElement", argument |-> argument]

ObjectPattern(properties) == [type |-> "ObjectPattern", properties |-> properties]

ArrayPattern(elements) == [type |-> "ArrayPattern", elements |-> elements]

AssignmentPattern(left, right) ==
    [type |-> "AssignmentPattern", left |-> left, right |-> right]

NewExpression(callee, arguments) ==
    [type |-> "NewExpression", callee |-> callee, arguments |-> arguments]

TSNonNullExpression(expression) ==
    [type |-> "TSNonNullExpression", expression |-> expression]

\* a variant that does not look through await
RECURSIVE unwrapExpression_keepsAwait(_)
unwrapExpression_keepsAwait(node) ==
    IF node # Null /\ node.type \in {"ChainExpression", "ParenthesizedExpression"}
    THEN unwrapExpression_keepsAwait(node.expression)
    ELSE node

RECURSIVE unwrapExpression(_)
unwrapExpression(node) ==
    IF node # Null
       /\ node.type \in {"AwaitExpression", "ChainExpression",
                         "ParenthesizedExpression"}
    THEN unwrapExpression(IF node.type = "AwaitExpression"
                          THEN node.argument ELSE node.expression)
    ELSE node

\* a variant that also takes the initializer of a declarator for exported
isExportedFunction_orDeclarator(node) ==
    IF "parent" \notin DOMAIN node THEN FALSE
    ELSE IF node.parent = Null THEN FALSE
    ELSE node.parent.type \in {"ExportNamedDeclaration", "ExportDefaultDeclaration",
                               "VariableDeclarator"}

isExportedFunction(node) ==
    IF "parent" \notin DOMAIN node THEN FALSE
    ELSE IF node.parent = Null THEN FALSE
    ELSE node.parent.type \in {"ExportNamedDeclaration", "ExportDefaultDeclaration"}

getCallExpressionFromStatement(statement) ==
    IF statement = Null THEN Null
    ELSE IF statement.type = "ExpressionStatement"
    THEN LET expr == unwrapExpression(statement.expression)
         IN IF expr.type = "CallExpression" THEN expr ELSE Null
    ELSE IF statement.type = "ReturnStatement"
    THEN LET expr == unwrapExpression(statement.argument)
         IN IF expr.type = "CallExpression" THEN expr ELSE Null
    ELSE Null

\* the params a loop iteration of isPassThroughWrapper accepts
isIdentifierParam(param) == param.type = "Identifier"

isRestIdentifierParam(param) ==
    param.type = "RestElement" /\ param.argument.type = "Identifier"

\* paramNames after the loop over params
RECURSIVE paramNamesOf(_)
paramNamesOf(params) ==
    IF params = <<>> THEN <<>>
    ELSE (IF isIdentifierParam(Head(params)) THEN <<Head(params).name>> ELSE <<>>)
         \o paramNamesOf(Tail(params))

\* restName after the loop over params: the name of the last rest element,
\* the empty sequence standing for null
RECURSIVE restNameOf(_)
restNameOf(params) ==
    IF params = <<>> THEN <<>>
    ELSE LET last == params[Len(params)] IN
         IF isRestIdentifierParam(last) THEN <<last.argument.name>>
         ELSE restNameOf(SubSeq(params, 1, Len(params) - 1))

\* the loop `for (let i = 0; i < paramNames.length; i += 1)` runs through
argsMatchNames(args, paramNames) ==
    \A i \in 1..Len(paramNames) :
        /\ i <= Len(args)
        /\ args[i].type = "Identifier"
        /\ args[i].name = paramNames[i]

\* a variant that does not mind the order of the arguments
isPassThroughWrapper_anyOrder(node, callExpression) ==
    LET params == node.params
        args == callExpression.arguments
    IN /\ \A i \in 1..Len(params) : isIdentifierParam(params[i])
       /\ Len(args) = Len(params)
       /\ \A i \in 1..Len(args) : args[i].type = "Identifier"
       /\ {args[i].name : i \in 1..Len(args)}
              = {params[i].name : i \in 1..Len(params)}

isPassThroughWrapper(node, callExpression) ==
    LET params == node.params
        args == callExpression.arguments
        paramNames == paramNamesOf(params)
        restName == restNameOf(params)
    IN IF \E i \in 1..Len(params) :
              ~isIdentifierParam(params[i]) /\ ~isRestIdentifierParam(params[i])
       THEN FALSE
       ELSE IF restName # <<>>
       THEN IF Len(args) # Len(paramNames) + 1 THEN FALSE
            ELSE IF ~argsMatchNames(args, paramNames) THEN FALSE
            ELSE LET lastArg == args[Len(args)] IN
                 /\ lastArg.type = "SpreadElement"
                 /\ lastArg.argument.type = "Identifier"
                 /\ lastArg.argument.name = restName[1]
       ELSE IF Len(args) # Len(paramNames) THEN FALSE
       ELSE argsMatchNames(args, paramNames)

\* a variant that takes the expression body of an arrow function for the
\* statement `return <expression>;`
noEmptyWrappers_expressionBodies(node) ==
    IF ~isExportedFunction(node) THEN <<>>
    ELSE LET body == node.body IN
    IF body = Null THEN <<>>
    ELSE LET statements == IF body.type = "BlockStatement" THEN body.body
                           ELSE <<ReturnStatement(body)>> IN
    IF Len(statements) # 1 THEN <<>>
    ELSE LET callExpression == getCallExpressionFromStatement(statements[1]) IN
    IF callExpression = Null THEN <<>>
    ELSE IF ~isPassThroughWrapper(node, callExpression) THEN <<>>
    ELSE <<Report(node, "noEmptyWrapper")>>

\* checkFunctionLike of noEmptyWrappersRule: the reports of one call
noEmptyWrappers(node) ==
    IF ~isExportedFunction(node) THEN <<>>
    ELSE LET body == node.body IN
    IF body = Null \/ body.type # "BlockStatement" THEN <<>>
    ELSE LET statements == body.body IN
    IF Len(statements) # 1 THEN <<>>
    ELSE LET callExpression == getCallExpressionFromStatement(statements[1]) IN
    IF callExpression = Null THEN <<>>
    ELSE IF ~isPassThroughWrapper(node, callExpression) THEN <<>>
    ELSE <<Report(node, "noEmptyWrapper")>>

-----------------------------------------------------------------------------
(* The files handed to no-empty-wrappers: one function each.  The text of  *)
(* such a file is kept in pieces: where the function stands, its parameter *)
(* list, the shape of its body, the layers around the expression of the    *)
(* body's statement (outermost first), whether that expression is a call   *)
(* or a `new`, the callee and the argument list.                           *)

\* parameters of a function
MaxParams == 2
\* layers around the call of the body
MaxLayers == 2

PlainParamTokens == {"a", "b", "{a}", "a = 1"}

RestParamTokens == {"...r", "...[a]"}

\* parameter lists: a rest parameter comes last
ParamLists ==
    SeqsUpTo(PlainParamTokens, MaxParams)
    \cup {plain \o <<rest>> :
             plain \in SeqsUpTo(PlainParamTokens, MaxParams - 1),
             rest \in RestParamTokens}

ArgumentTokens == {"a", "b", "...r", "1"}

ArgumentLists == SeqsUpTo(ArgumentTokens, MaxParams + 1)

Containers ==
    {"export default function f", "export function f", "function f",
     "export default arrow", "export const f = arrow",
     "export const f = function", "const f = arrow"}

ArrowContainers ==
    {"export default arrow", "export const f = arrow", "const f = arrow"}

Bodies ==
    {"{ return CALL; }", "{ CALL; }", "{ return; }", "{ }", "{ CALL; return; }",
     "{ throw CALL; }", "=> CALL"}

LayerTokens == {"await", "paren", "chain", "nonnull", "not"}

Callees == {"g", "o.g", "a"}

WrapperText(container, params, body, layers, base, callee, arguments) ==
    [container |-> container, params |-> params, body |-> body,
     layers |-> layers, base |-> base, callee |-> callee,
     arguments |-> arguments]

ParseParam(token) ==
    CASE token = "{a}" ->
           ObjectPattern(<<Property(Identifier("a"), Identifier("a"), FALSE, TRUE,
                                    [type |-> "ObjectPattern"])>>)
      [] token = "a = 1" -> AssignmentPattern(Identifier("a"), Literal("number", "1"))
      [] token = "...r" -> RestElement(Identifier("r"))
      [] token = "...[a]" -> RestElement(ArrayPattern(<<Identifier("a")>>))
      [] OTHER -> Identifier(token)

ParseArgument(token) ==
    CASE token = "...r" -> SpreadElement(Identifier("r"))
      [] token = "1" -> Literal("number", "1")
      [] OTHER -> Identifier(token)

RECURSIVE ParseParams(_)
ParseParams(tokens) ==
    IF tokens = <<>> THEN <<>>
    ELSE <<ParseParam(Head(tokens))>> \o ParseParams(Tail(tokens))

RECURSIVE ParseArguments(_)
ParseArguments(tokens) ==
    IF tokens = <<>> THEN <<>>
    ELSE <<ParseArgument(Head(tokens))>> \o ParseArguments(Tail(tokens))

ParseCallee(callee) ==
    IF callee = "o.g"
    THEN MemberExpression(Identifier("o"), Identifier("g"), FALSE)
    ELSE Identifier(callee)

RECURSIVE ParseLayers(_, _)
ParseLayers(layers, expression) ==
    IF layers = <<>> THEN expression
    ELSE LET inner == ParseLayers(Tail(layers), expression) IN
         CASE Head(layers) = "await" -> AwaitExpression(inner)
           [] Head(layers) = "paren" -> ParenthesizedExpression(inner)
           [] Head(layers) = "chain" -> ChainExpression(inner)
           [] Head(layers) = "nonnull" -> TSNonNullExpression(inner)
           [] Head(layers) = "not" -> UnaryExpression("!", inner)

ParseExpression(text) ==
    LET callee == ParseCallee(text.callee)
        arguments == ParseArguments(text.arguments)
    IN ParseLayers(text.layers,
                   IF text.base = "new" THEN NewExpression(callee, arguments)
                   ELSE CallExpression(callee, arguments))

ParseBody(text) ==
    LET call == ParseExpression(text) IN
    CASE text.body = "{ return CALL; }" -> BlockStatement(<<ReturnStatement(call)>>)
      [] text.body = "{ CALL; }" -> BlockStatement(<<ExpressionStatement(call)>>)
      [] text.body = "{ return; }" -> BlockStatement(<<ReturnStatement(Null)>>)
      [] text.body = "{ }" -> BlockStatement(<<>>)
      [] text.body = "{ CALL; return; }" ->
             BlockStatement(<<ExpressionStatement(call), ReturnStatement(Null)>>)
      [] text.body = "{ throw CALL; }" -> BlockStatement(<<ThrowStatement(call)>>)
      [] text.body = "=> CALL" -> call

ParseWrapper(text) ==
    LET params == ParseParams(text.params)
        function(type, id, parent) ==
            FunctionLike(type, id, params, ParseBody(text), [type |-> parent])
        f == Identifier("f")
        const(init) == VariableDeclaration("const", <<VariableDeclarator(f, init)>>)
        statement ==
          CASE text.container = "export default function f" ->
                 ExportDefaultDeclaration(
                     function("FunctionDeclaration", f, "ExportDefaultDeclaration"))
            [] text.container = "export function f" ->
                 ExportNamedDeclaration(
                     function("FunctionDeclaration", f, "ExportNamedDeclaration"),
                     <<>>, Null, "value")
            [] text.container = "function f" ->
                 function("FunctionDeclaration", f, "Program")
            [] text.container = "export default arrow" ->
                 ExportDefaultDeclaration(
                     function("ArrowFunctionExpression", Null,
                              "ExportDefaultDeclaration"))
            [] text.container = "export const f = arrow" ->
                 ExportNamedDeclaration(
                     const(function("ArrowFunctionExpression", Null,
                                    "VariableDeclarator")),
                     <<>>, Null, "value")
            [] text.container = "export const f = function" ->
                 ExportNamedDeclaration(
                     const(function("FunctionExpression", Null,
                                    "VariableDeclarator")),
                     <<>>, Null, "value")
            [] text.container = "const f = arrow" ->
                 const(function("ArrowFunctionExpression", Null,
                                "VariableDeclarator"))
    IN Program(<<statement>>)

\* the file of a text
WrapperFile(text) == File(ParseWrapper(text), SourceCode(text, TRUE, Null), NoOptions)

NoEmptyWrappers ==
    \E node \in NodesOfTypes(file.program, FunctionLikeTypes) :
        /\ Call("no-empty-wrappers", node) \notin visited
        /\ reports' = reports \o noEmptyWrappers(node)
        /\ visited' = visited \cup {Call("no-empty-wrappers", node)}
        /\ UNCHANGED <<file, found, instances>>

\* every parameter list against every argument list
InitWrapperLists ==
    \E params \in ParamLists, arguments \in ArgumentLists :
        file = WrapperFile(WrapperText("export default function f", params,
                                       "{ return CALL; }", <<>>, "call", "g",
                                       arguments))

\* every place, body and expression; only an arrow function has an
\* expression for its body
InitWrapperShapes ==
    \E container \in Containers, body \in Bodies,
       layers \in SeqsUpTo(LayerTokens, MaxLayers), base \in {"call", "new"},
       arguments \in {<<"a">>, <<"b">>} :
        /\ body = "=> CALL" => container \in ArrowContainers
        /\ file = WrapperFile(WrapperText(container, <<"a">>, body, layers, base,
                                          "g", arguments))

\* other callees, and the rest name passed without spread
InitWrapperCallees ==
    \E callee \in Callees,
       params \in {<<>>, <<"a">>, <<"a", "b">>, <<"...r">>, <<"a", "...r">>},
       arguments \in {<<>>, <<"a">>, <<"a", "b">>, <<"b", "a">>, <<"...r">>,
                      <<"r">>, <<"a", "...r">>, <<"...r", "a">>} :
        file = WrapperFile(WrapperText("export function f", params, "{ CALL; }",
                                       <<>>, "call", callee, arguments))

InitWrapper ==
    /\ InitWrapperLists \/ InitWrapperShapes \/ InitWrapperCallees
    /\ reports = <<>>
    /\ visited = {}
    /\ found = FALSE
    /\ instances = <<>>

NextWrapper == NoEmptyWrappers

SpecWrapper == InitWrapper /\ [][NextWrapper]_vars

-----------------------------------------------------------------------------
(* Properties of no-empty-wrappers, stated over the text of the file.      *)

Text == file.sourceCode.text

WrapperDone == \E c \in visited : c.rule = "no-empty-wrappers"

\* the function of the file
WrapperFunction ==
    CHOOSE node \in NodesOfTypes(file.program, FunctionLikeTypes) : TRUE

WrapperReported == reports = <<Report(WrapperFunction, "noEmptyWrapper")>>

DirectlyExported ==
    Text.container \in {"export default function f", "export function f",
                        "export default arrow"}

\* the pass-through-call shape of spec 4.2, read off the text
PassThroughShape ==
    /\ Text.body \in {"{ return CALL; }", "{ CALL; }"}
    /\ Text.base = "call"
    /\ \A i \in 1..Len(Text.layers) : Text.layers[i] \in {"await", "paren", "chain"}
    /\ \A i \in 1..Len(Text.params) : Text.params[i] \in {"a", "b", "...r"}
    /\ Text.arguments = Text.params

\* C12: `export default function f(...args) { return g(...args); }` is
\* reported by no-empty-wrappers; an exported function whose call passes its
\* parameters in another order, `f(a, b) { return g(b, a); }`, is not.
C12_RestForwardedReportedSwappedNot ==
    WrapperDone =>
        /\ (/\ Text.container = "export default function f"
            /\ Text.params = <<"...r">>
            /\ Text.body = "{ return CALL; }" /\ Text.layers = <<>>
            /\ Text.base = "call" /\ Text.arguments = <<"...r">>)
           => WrapperReported
        /\ (/\ DirectlyExported
            /\ Text.params = <<"a", "b">> /\ Text.arguments = <<"b", "a">>)
           => reports = <<>>

\* the function with the rest parameter has been reported
C12_Witness ==
    /\ WrapperDone
    /\ Text = WrapperText("export default function f", <<"...r">>,
                          "{ return CALL; }", <<>>, "call", "g", <<"...r">>)
    /\ WrapperReported

\* the function with the swapped arguments has been let through
C12_WitnessSwapped ==
    /\ WrapperDone
    /\ Text = WrapperText("export default function f", <<"a", "b">>,
                          "{ return CALL; }", <<>>, "call", "g", <<"b", "a">>)
    /\ reports = <<>>

\* C13: no-empty-wrappers reports a function only when its direct parent is
\* a named or default export declaration; a pass-through function that is
\* not exported, or that is the initializer of an exported variable, is
\* never reported.
C13_OnlyDirectlyExportedReported ==
    WrapperDone =>
        /\ reports # <<>> => DirectlyExported
        /\ Text.container \in {"function f", "const f = arrow",
                               "export const f = arrow",
                               "export const f = function"}
           => reports = <<>>

\* `export const f = (a) => { return g(a); }` has been let through
C13_Witness ==
    /\ WrapperDone
    /\ Text = WrapperText("export const f = arrow", <<"a">>, "{ return CALL; }",
                          <<>>, "call", "g", <<"a">>)
    /\ reports = <<>>

\* C19: a function matches the pass-through-call shape exactly when its
\* block body is one expression statement or return whose expression is a
\* call under await, optional-chain and parenthesis layers, its parameters
\* are plain identifiers and at most a rest element over an identifier, and
\* the arguments are the parameter names in order followed by one spread of
\* the rest name; an exported function is reported exactly then.
C19_PassThroughShape ==
    WrapperDone =>
        /\ DirectlyExported => (WrapperReported <=> PassThroughShape)
        /\ DirectlyExported => (reports = <<>> <=> ~PassThroughShape)
        /\ LET function == WrapperFunction IN
           PassThroughShape
           <=> /\ function.body.type = "BlockStatement"
               /\ Len(function.body.body) = 1
               /\ getCallExpressionFromStatement(function.body.body[1]) # Null
               /\ isPassThroughWrapper(function,
                      getCallExpressionFromStatement(function.body.body[1]))

\* `export function f() { await (g()); }`, without parameters and arguments,
\* has been reported
C19_Witness ==
    /\ WrapperDone
    /\ Text = WrapperText("export function f", <<>>, "{ CALL; }", <<>>, "call",
                          "g", <<>>)
    /\ WrapperReported

\* a call under await and parentheses, callee a parameter, has been reported
C19_WitnessLayers ==
    /\ WrapperDone
    /\ Text.layers = <<"await", "paren">>
    /\ Text.container = "export default arrow"
    /\ WrapperReported

-----------------------------------------------------------------------------
(* Repeated calls of the usage resolver on one file.  Every call of        *)
(* isIdentifierUsedInternally declares its own `found`, scans the program  *)
(* and returns what `found` holds at the end.                              *)

\* lines of a file whose names are resolved
MaxUsage == 2

UsageLines ==
    {"const x = 1;", "x();", "o.x;", "function f(x) {}", "export default x;",
     "function g() { const x = 2; return x; }"}

UsageNames == {"x", "o"}

\* the source object: with visitor keys, without, or none at all
UsageSources(text) ==
    {SourceCode(text, TRUE, Null), SourceCode(text, FALSE, Null), Null}

\* the default export's identifiers named name, of which a file has at most
\* one
RECURSIVE defaultExportIdentifiers(_, _)
defaultExportIdentifiers(body, name) ==
    IF body = <<>> THEN <<>>
    ELSE (IF isDefaultIdentifierExport(Head(body))
             /\ Head(body).declaration.name = name
          THEN <<Head(body).declaration>> ELSE <<>>)
         \o defaultExportIdentifiers(Tail(body), name)

\* the same identifiers as another pass over the file produces them: other
\* objects, with the span in start and end
RECURSIVE fromAnotherPass(_)
fromAnotherPass(nodes) ==
    IF nodes = <<>> THEN <<>>
    ELSE <<[type |-> "Identifier", name |-> Head(nodes).name,
            start |-> Head(nodes).range[1], end |-> Head(nodes).range[2]]>>
         \o fromAnotherPass(Tail(nodes))

\* `[identifier, ...declarationInfo.variableIds]`, or one identifier of the
\* name, with the nodes of the program or with those of another pass, and
\* no exclusion at all
UsageExclusions(program, name) ==
    LET excluded == defaultExportIdentifiers(program.body, name)
                    \o getTopLevelDeclarationInfo(program, name).variableIds
        named == NodesOfTypes(program, {"Identifier"})
    IN {<<>>, excluded, fromAnotherPass(excluded)}
       \cup {fromAnotherPass(<<node>>) : node \in {n \in named : n.name = name}}

\* a variant that keeps the `found` the last call left
foundAtEntry_kept(previous) == previous

\* `let found = false;`
foundAtEntry(previous) == FALSE

UsageCall(name, excludedNodes, result, order) ==
    [rule |-> "isIdentifierUsedInternally",
     node |-> [name |-> name, excludedNodes |-> excludedNodes],
     result |-> result,
     order |-> order]

\* one call of isIdentifierUsedInternally: visit returns at once while found
\* is set.  For one file and one name the caller passes the same excluded
\* nodes in every call.
IsIdentifierUsedInternally ==
    \E name \in UsageNames :
        \E excludedNodes \in UsageExclusions(file.program, name) :
            LET visitorKeys == getVisitorKeys(file.sourceCode)
                result ==
                    IF foundAtEntry(found) THEN TRUE
                    ELSE isIdentifierUsedInternally(file.program, name,
                                                    excludedNodes, file.sourceCode)
                order ==
                    IF foundAtEntry(found) THEN <<>>
                    ELSE visitOrder(file.program, Null, name, excludedNodes,
                                    visitorKeys)
            IN /\ \A call \in visited :
                      call.node.name = name
                      => call.node.excludedNodes = excludedNodes
               /\ found' = result
               /\ visited' =
                      visited \cup {UsageCall(name, excludedNodes, result, order)}
               /\ UNCHANGED <<file, reports, instances>>

InitUsage ==
    /\ \E text \in SeqsUpTo(UsageLines, MaxUsage) :
           \E sourceCode \in UsageSources(text) :
               file = File(Parse(text), sourceCode, NoOptions)
    /\ reports = <<>>
    /\ visited = {}
    /\ found = FALSE
    /\ instances = <<>>

NextUsage == IsIdentifierUsedInternally

SpecUsage == InitUsage /\ [][NextUsage]_vars

\* C14: the usage resolver is idempotent: all its calls on the same program,
\* name, excluded nodes and source object return the same boolean.
C14_UsageIdempotent ==
    \A c1 \in visited : \A c2 \in visited :
        (/\ c1.rule = "isIdentifierUsedInternally"
         /\ c2.rule = "isIdentifierUsedInternally"
         /\ c1.node = c2.node)
        => c1.result = c2.result

\* a call has returned false after another call on the same file had
\* returned true
C14_Witness ==
    /\ ~found
    /\ \E c \in visited : c.rule = "isIdentifierUsedInternally" /\ c.result
    /\ \E c \in visited : c.rule = "isIdentifierUsedInternally" /\ ~c.result

-----------------------------------------------------------------------------
(* The two strategies of usage resolution.                                 *)

\* the verdict on the default export of line i from the scan of the program,
\* as a host without binding table gets it
VerdictByScan(i) ==
    isAllowedDefaultIdentifierExport(file.program.body[i], file.program,
                                     SourceCode(Lines, TRUE, Null))

\* C15: for the same file and default-exported name, the verdict with the
\* host's binding table (holding every reference the host records, the
\* write of a declaration's initializer included) equals the verdict of the
\* scan of the program without table.
C15_TableVerdictEqualsScanVerdict ==
    ExportDone =>
        \A i \in 1..Len(Lines) :
            Lines[i] = "export default x;"
            => (DefaultExportAccepted(i) <=> VerdictByScan(i))

\* with a table that does not hold the name the verdicts agree
C15_VerdictsAgreeWithoutEntry ==
    (ExportDone /\ findGlobalVariable(file.sourceCode, "x") = Null)
    => C15_TableVerdictEqualsScanVerdict

\* `let x; export { x }; export default x;` has been accepted with the
\* host's table, which holds the reference of the export list
C15_AcceptedByTableOnly ==
    /\ ExportDone
    /\ Lines = <<"let x;", "export { x };", "export default x;">>
    /\ findGlobalVariable(file.sourceCode, "x") # Null
    /\ DefaultExportAccepted(3)
    /\ ~VerdictByScan(3)

-----------------------------------------------------------------------------
(* A session of the host.  The host opens files in any order, creates the  *)
(* instance of a rule for the file it has open by calling the rule's       *)
(* `create(context)`, and calls the handlers of any instance it has        *)
(* created on the nodes of that instance's file, also after it has opened  *)
(* other files.  An instance is the closure `create` returned: for         *)
(* no-swallowed-catch it holds sourceCode, for export-code-last options    *)
(* and sourceCode, for the other two rules nothing.                        *)

\* instances the host creates in a session
MaxInstances == 2
\* reports the sink takes in a session
MaxSink == 3

Rules ==
    {"require-guard-clauses", "no-swallowed-catch", "export-code-last",
     "no-empty-wrappers"}

\* the node types a rule's `create` registers a handler for
RegisteredTypes(rule) ==
    CASE rule = "require-guard-clauses" -> FunctionLikeTypes
      [] rule = "no-swallowed-catch" -> {"CatchClause"}
      [] rule = "export-code-last" -> {"Program"}
      [] rule = "no-empty-wrappers" -> FunctionLikeTypes

\* `if (a) { b(); }`
IfWithoutElse ==
    IfStatement(Identifier("a"),
                BlockStatement(<<ExpressionStatement(
                    CallExpression(Identifier("b"), <<>>))>>),
                Null)

HostFiles ==
    {ExportFile(<<"export * from 'm';", "const a = 1;">>, [allowReExport |-> "true"]),
     ExportFile(<<"export * from 'm';", "const a = 1;">>, NoOptions),
     ExportFile(<<"export { b };", "export function f() {}", "const a = 1;">>,
                NoOptions),
     CatchFile(<<"a", ";", "a", ";">>, TRUE),
     CatchFile(<<"/", "*", "*", "/">>, TRUE),
     WrapperFile(WrapperText("export function f", <<"a">>, "{ return CALL; }",
                             <<>>, "call", "g", <<"a">>)),
     WrapperFile(WrapperText("export default arrow", <<"a">>, "=> CALL",
                             <<>>, "call", "g", <<"a">>)),
     WrapperFile(WrapperText("export function f", <<"a">>, "{ }",
                             <<>>, "call", "g", <<"a">>)),
     WrapperFile(WrapperText("export function f", <<"a">>, "{ CALL; return; }",
                             <<>>, "call", "g", <<"a">>)),
     GuardFile(Program(<<FunctionLike("FunctionDeclaration", Identifier("f"), <<>>,
                             BlockStatement(<<IfWithoutElse, IfWithoutElse>>),
                             [type |-> "Program"])>>)),
     File(Program(<<TryStatement(BlockAt(<<>>, <<3, 5>>),
                                 CatchClause(Identifier("e"), Null), Null)>>),
          SourceCode(TryPrefix, TRUE, Null), NoOptions),
     ExportFile(<<>>, NoOptions)}

\* what `create(context)` of the rule closes over
Captured(rule, context) ==
    CASE rule = "no-swallowed-catch" ->
           [options |-> Null, sourceCode |-> context.sourceCode]
      [] rule = "export-code-last" ->
           [options |-> context.options, sourceCode |-> context.sourceCode]
      [] OTHER -> [options |-> Null, sourceCode |-> Null]

Instance(rule, context) ==
    [rule |-> rule, file |-> context, captured |-> Captured(rule, context)]

\* a variant in which the instances of a rule share what `create` read last
capturedOf_sharedByRule(all, k) ==
    LET same == SelectSeq(all, LAMBDA instance : instance.rule = all[k].rule)
    IN same[Len(same)].captured

\* the `options` and `sourceCode` a handler of the k-th instance sees
capturedOf(all, k) == all[k].captured

\* the reports of one handler call
RuleReports(rule, node, captured) ==
    CASE rule = "require-guard-clauses" -> requireGuardClauses(node)
      [] rule = "no-swallowed-catch" -> noSwallowedCatch(node, captured.sourceCode)
      [] rule = "export-code-last" ->
           exportsLastExceptTypes(node, captured.options, captured.sourceCode)
      [] rule = "no-empty-wrappers" -> noEmptyWrappers(node)

\* a variant of the sink that takes the first report of a handler call only
sinkAfter_firstOnly(sink, out) ==
    IF out = <<>> THEN sink ELSE Append(sink, out[1])

\* `context.report(...)` for each report of a handler call, in order
sinkAfter(sink, out) == sink \o out

Run(context, rule, node, out) ==
    [file |-> context, rule |-> rule, node |-> node, reports |-> out]

OpenFile ==
    /\ file' \in HostFiles
    /\ UNCHANGED <<reports, visited, found, instances>>

Create ==
    \E rule \in Rules :
        /\ Len(instances) < MaxInstances
        /\ instances' = Append(instances, Instance(rule, file))
        /\ UNCHANGED <<file, reports, visited, found>>

\* a variant of a handler call that also moves the statements the rule
\* reported to the end of the body
HandleNode_rewrites ==
    \E k \in 1..Len(instances) :
        LET instance == instances[k]
            program == instance.file.program
            reported(statement) ==
                \E i \in 1..Len(reports') : reports'[i].node = statement
        IN \E node \in NodesOfTypes(program, RegisteredTypes(instance.rule)) :
            LET out == RuleReports(instance.rule, node, capturedOf(instances, k)) IN
            /\ Len(reports) + Len(out) <= MaxSink
            /\ reports' = sinkAfter(reports, out)
            /\ visited' = visited \cup {Run(instance.file, instance.rule, node, out)}
            /\ instances' =
                   [instances EXCEPT ![k].file.program.body =
                       SelectSeq(program.body, LAMBDA s : ~reported(s))
                       \o SelectSeq(program.body, reported)]
            /\ UNCHANGED <<file, found>>

\* the host calls a handler of an instance on a node of the instance's file
HandleNode ==
    \E k \in 1..Len(instances) :
        LET instance == instances[k] IN
        \E node \in NodesOfTypes(instance.file.program,
                                 RegisteredTypes(instance.rule)) :
            LET out == RuleReports(instance.rule, node, capturedOf(instances, k)) IN
            /\ Len(reports) + Len(out) <= MaxSink
            /\ reports' = sinkAfter(reports, out)
            /\ visited' = visited \cup {Run(instance.file, instance.rule, node, out)}
            /\ UNCHANGED <<file, found, instances>>

InitHost ==
    /\ file \in HostFiles
    /\ reports = <<>>
    /\ visited = {}
    /\ found = FALSE
    /\ instances = <<>>

NextHost == OpenFile \/ Create \/ HandleNode

SpecHost == InitHost /\ [][NextHost]_vars

-----------------------------------------------------------------------------
(* Properties of a session.                                                *)

\* the reports of the handler call when the rule is run on the file alone
ReportsAlone(run) ==
    RuleReports(run.rule, run.node, Captured(run.rule, run.file))

\* C16: the reports of a rule for a file depend on that file's tree, source,
\* binding table and options only: they are the same whatever files were
\* analysed before, after or in between, in whatever order the rules run,
\* and when a rule is invoked again on the same file.
C16_ReportsDependOnFileOnly ==
    /\ \A r1 \in visited : \A r2 \in visited :
           (r1.file = r2.file /\ r1.rule = r2.rule /\ r1.node = r2.node)
           => r1.reports = r2.reports
    /\ \A run \in visited : run.reports = ReportsAlone(run)

\* two instances of export-code-last for the same tree with different
\* options are alive, and the handler of the older one has run and reported
C16_Witness ==
    /\ Len(instances) = 2
    /\ instances[1].rule = "export-code-last"
    /\ instances[2].rule = "export-code-last"
    /\ instances[1].file.program = instances[2].file.program
    /\ instances[1].file.options = NoOptions
    /\ instances[2].file.options = [allowReExport |-> "true"]
    /\ \E run \in visited : run.file = instances[1].file /\ run.reports # <<>>
    /\ \E run \in visited : run.file = instances[2].file /\ run.reports = <<>>

\* the message identifiers a rule reports with (`meta.messages`)
MessagesOf(rule) ==
    CASE rule = "require-guard-clauses" -> {"requireGuardClause"}
      [] rule = "no-swallowed-catch" -> {"noSwallowedCatch"}
      [] rule = "export-code-last" ->
           {"exportsLast", "noExportSpecifiers", "noExportAlias",
            "noDefaultExportIdentifier"}
      [] rule = "no-empty-wrappers" -> {"noEmptyWrapper"}

MessageIdsOf(run) == {run.reports[i].messageId : i \in 1..Len(run.reports)}

\* the reports of the handler call are in the sink, together and in order
Surfaced(run) ==
    \E start \in 0..(Len(reports) - Len(run.reports)) :
        SubSeq(reports, start + 1, start + Len(run.reports)) = run.reports

\* C17 as stated: every violation a rule found is surfaced through the sink,
\* and all the reports of one rule carry the same message identifier.
C17_Original ==
    /\ \A run \in visited : Surfaced(run)
    /\ \A r1 \in visited : \A r2 \in visited :
           r1.rule = r2.rule
           => Cardinality(MessageIdsOf(r1) \cup MessageIdsOf(r2)) <= 1

\* C17: every violation a rule found is surfaced through the sink with a
\* message identifier of that rule; require-guard-clauses, no-swallowed-catch
\* and no-empty-wrappers have one identifier each, export-code-last has
\* four, one for each kind of violation.
C17_SurfacedWithAMessageOfTheRule ==
    /\ \A run \in visited :
           /\ Surfaced(run)
           /\ MessageIdsOf(run) \subseteq MessagesOf(run.rule)
    /\ \A rule \in Rules \ {"export-code-last"} : Cardinality(MessagesOf(rule)) = 1
    /\ \A i \in 1..Len(reports) :
           \E rule \in Rules : reports[i].messageId \in MessagesOf(rule)

\* one call of the Program handler of export-code-last has reported an
\* export list and a misplaced export, with two message identifiers
C17_Witness ==
    \E run \in visited :
        /\ run.rule = "export-code-last"
        /\ MessageIdsOf(run) = {"noExportSpecifiers", "exportsLast"}
        /\ Surfaced(run)

IsPrefix(s, t) == Len(s) <= Len(t) /\ SubSeq(t, 1, Len(s)) = s

\* C18: no operation of a rule changes the tree, the options or the source
\* object it is given: what the host handed to an instance stays as it was
\* in every step, and a handler call changes nothing but the sink, which it
\* only adds to.
C18_InputsNeverMutated ==
    [][/\ Len(instances') >= Len(instances)
       /\ \A k \in 1..Len(instances) : instances'[k] = instances[k]
       /\ visited' # visited =>
              /\ file' = file
              /\ instances' = instances
              /\ found' = found
              /\ IsPrefix(reports, reports')]_vars

\* the Program handler of export-code-last has reported on a file while a
\* second instance is alive
C18_Witness ==
    /\ Len(instances) = 2
    /\ \E run \in visited :
           /\ run.rule = "export-code-last"
           /\ run.reports # <<>>
           /\ run.file \in HostFiles
           /\ \E k \in 1..2 : instances[k].file = run.file
    /\ reports # <<>>

-----------------------------------------------------------------------------
(* The reference classifier on its own.  The scan calls                    *)
(* isIdentifierReference(node, parent) on every identifier of the name it  *)
(* looks for; here the host hands it one occurrence of `x` in each         *)
(* position a parent node can hold an identifier in.  `file.program` is    *)
(* the parent (Null for none), `file.key` the field of the parent the      *)
(* occurrence sits in.                                                     *)

\* the occurrence the classifier is asked about
Target == At(Identifier("x"), <<4, 5>>)

\* another occurrence of the same name in the same parent
Sibling == At(Identifier("x"), <<8, 9>>)

EmptyBlock == BlockStatement(<<>>)

\* the field of a type-only node an identifier sits in
TypeOnlyKey(type) ==
    CASE type = "TSTypeReference" -> "typeName"
      [] type = "TSQualifiedName" -> "right"
      [] type \in {"TSInterfaceDeclaration", "TSTypeAliasDeclaration",
                   "TSModuleDeclaration"} -> "id"
      [] type = "TSParameterProperty" -> "parameter"
      [] type = "TSPropertySignature" -> "key"
      [] OTHER -> "typeAnnotation"

Occurrence(parent, key) == [program |-> parent, key |-> key, node |-> Target]

DeclarationOccurrences ==
    {Occurrence(Null, "none"),
     Occurrence(VariableDeclarator(Target, Sibling), "id"),
     Occurrence(VariableDeclarator(Target, Null), "id"),
     Occurrence(VariableDeclarator(Sibling, Target), "init"),
     Occurrence(FunctionLike("ArrowFunctionExpression", Null, <<Target>>,
                             EmptyBlock, Null), "params"),
     Occurrence(FunctionLike("ArrowFunctionExpression", Null, <<Sibling>>,
                             Target, Null), "body"),
     Occurrence(CatchClause(Target, EmptyBlock), "param"),
     Occurrence(ExportDefaultDeclaration(Target), "declaration"),
     Occurrence([type |-> "ImportSpecifier", local |-> Target,
                 imported |-> Sibling], "local"),
     Occurrence([type |-> "ImportSpecifier", local |-> Sibling,
                 imported |-> Target], "imported"),
     Occurrence([type |-> "ImportDefaultSpecifier", local |-> Target], "local"),
     Occurrence([type |-> "ImportNamespaceSpecifier", local |-> Target], "local"),
     Occurrence(ExportSpecifier(Target, Sibling, "value"), "local"),
     Occurrence(ExportSpecifier(Sibling, Target, "value"), "exported")}
    \cup {Occurrence(FunctionLike(type, Target, <<Sibling>>, EmptyBlock, Null), "id") :
            type \in {"FunctionDeclaration", "FunctionExpression"}}
    \cup {Occurrence(FunctionLike(type, Sibling, params, EmptyBlock, Null), "params") :
            type \in {"FunctionDeclaration", "FunctionExpression"},
            params \in {<<Target>>, <<Sibling, Target>>}}
    \cup {Occurrence([type |-> type, id |-> Target, superClass |-> Sibling], "id") :
            type \in ClassTypes}
    \cup {Occurrence([type |-> type, id |-> Sibling, superClass |-> Target],
                     "superClass") : type \in ClassTypes}

MemberOccurrences ==
    {Occurrence(MemberExpression(Target, Sibling, computed), "object") :
        computed \in BOOLEAN}
    \cup {Occurrence(MemberExpression(Sibling, Target, computed), "property") :
            computed \in BOOLEAN}
    \cup {Occurrence(Property(Target, IF flags[2] THEN Target ELSE Sibling,
                              flags[1], flags[2], [type |-> owner]), "key") :
            flags \in {<<FALSE, FALSE>>, <<TRUE, FALSE>>, <<FALSE, TRUE>>},
            owner \in {"ObjectExpression", "ObjectPattern"}}
    \cup {Occurrence(Property(Sibling, Target, computed, FALSE, [type |-> owner]),
                     "value") :
            computed \in BOOLEAN, owner \in {"ObjectExpression", "ObjectPattern"}}
    \cup {Occurrence([type |-> type, key |-> Target, value |-> Sibling,
                      computed |-> computed], "key") :
            type \in ClassMemberTypes, computed \in BOOLEAN}
    \cup {Occurrence([type |-> type, key |-> Sibling, value |-> Target,
                      computed |-> computed], "value") :
            type \in {"PropertyDefinition", "ClassProperty"}, computed \in BOOLEAN}

StatementOccurrences ==
    {Occurrence([type |-> "LabeledStatement", label |-> Target,
                 body |-> EmptyBlock], "label"),
     Occurrence([type |-> "BreakStatement", label |-> Target], "label"),
     Occurrence([type |-> "ContinueStatement", label |-> Target], "label"),
     Occurrence(AssignmentPattern(Target, Sibling), "left"),
     Occurrence(AssignmentPattern(Sibling, Target), "right"),
     Occurrence(RestElement(Target), "argument"),
     Occurrence(ArrayPattern(<<Sibling, Target>>), "elements"),
     Occurrence([type |-> "ForStatement", init |-> Target, test |-> Sibling,
                 update |-> Sibling, body |-> EmptyBlock], "init"),
     Occurrence([type |-> "ForStatement", init |-> Sibling, test |-> Target,
                 update |-> Sibling, body |-> EmptyBlock], "test"),
     Occurrence([type |-> "ForStatement", init |-> Null, test |-> Null,
                 update |-> Target, body |-> EmptyBlock], "update")}
    \cup {Occurrence([type |-> type, left |-> Target, right |-> Sibling,
                      body |-> EmptyBlock], "left") :
            type \in {"ForInStatement", "ForOfStatement"}}
    \cup {Occurrence([type |-> type, left |-> Sibling, right |-> Target,
                      body |-> EmptyBlock], "right") :
            type \in {"ForInStatement", "ForOfStatement"}}

TypeOccurrences ==
    {Occurrence([type |-> type, expression |-> Target], "expression") :
        type \in TSExpressionTypes}
    \cup {Occurrence([type |-> type] @@ [k \in {TypeOnlyKey(type)} |-> Target],
                     TypeOnlyKey(type)) : type \in TypeOnlyTypes}
    \cup {Occurrence([type |-> "TSQualifiedName", left |-> Target,
                      right |-> Sibling], "left")}

ExpressionOccurrences ==
    {Occurrence(ExpressionStatement(Target), "expression"),
     Occurrence(ReturnStatement(Target), "argument"),
     Occurrence(ThrowStatement(Target), "argument"),
     Occurrence(CallExpression(Target, <<Sibling>>), "callee"),
     Occurrence(CallExpression(Sibling, <<Target>>), "arguments"),
     Occurrence(NewExpression(Target, <<>>), "callee"),
     Occurrence(UnaryExpression("!", Target), "argument"),
     Occurrence(AwaitExpression(Target), "argument"),
     Occurrence(SpreadElement(Target), "argument"),
     Occurrence(ChainExpression(Target), "expression"),
     Occurrence(ParenthesizedExpression(Target), "expression"),
     Occurrence(IfStatement(Target, EmptyBlock, Null), "test"),
     Occurrence(TemplateLiteral(<<>>, <<Target>>), "expressions"),
     Occurrence([type |-> "ArrayExpression", elements |-> <<Sibling, Target>>],
                "elements"),
     Occurrence([type |-> "UpdateExpression", operator |-> "++",
                 argument |-> Target], "argument")}
    \cup {Occurrence([type |-> type, operator |-> "=", left |-> Target,
                      right |-> Sibling], "left") :
            type \in {"AssignmentExpression", "BinaryExpression", "LogicalExpression"}}
    \cup {Occurrence([type |-> type, operator |-> "=", left |-> Sibling,
                      right |-> Target], "right") :
            type \in {"AssignmentExpression", "BinaryExpression", "LogicalExpression"}}

Occurrences ==
    DeclarationOccurrences \cup MemberOccurrences \cup StatementOccurrences
    \cup TypeOccurrences \cup ExpressionOccurrences

Classified(occurrence, result) ==
    [program |-> occurrence.program, key |-> occurrence.key,
     node |-> occurrence.node, result |-> result]

\* the scan asks whether the occurrence is a reference
IsIdentifierReference ==
    /\ visited = {}
    /\ visited' = {Classified(file, isIdentifierReference(file.node, file.program))}
    /\ found' = isIdentifierReference(file.node, file.program)
    /\ UNCHANGED <<file, reports, instances>>

InitReference ==
    /\ file \in Occurrences
    /\ reports = <<>>
    /\ visited = {}
    /\ found = FALSE
    /\ instances = <<>>

NextReference == IsIdentifierReference

SpecReference == InitReference /\ [][NextReference]_vars

-----------------------------------------------------------------------------
(* Properties of the reference classifier.                                 *)

\* the positions the claim lists as not qualifying
ListedAsNotQualifying(parent, key) ==
    /\ parent # Null
    /\ \/ parent.type \in FunctionLikeTypes \cup ClassTypes /\ key = "id"
       \/ parent.type \in FunctionLikeTypes /\ key = "params"
       \/ parent.type = "CatchClause" /\ key = "param"
       \/ parent.type \in SpecifierTypes /\ key = "local"
       \/ parent.type = "MemberExpression" /\ key = "property" /\ ~parent.computed
       \/ /\ parent.type = "Property"
          /\ key = "key"
          /\ ~parent.computed
          /\ ~parent.shorthand
       \/ parent.type \in LabelTypes /\ key = "label"
       \/ parent.type = "VariableDeclarator" /\ key = "id"
       \/ parent.type \in {"ArrayPattern", "ObjectPattern", "RestElement"}
       \/ parent.type = "AssignmentPattern" /\ key = "left"
       \/ /\ parent.type = "Property"
          /\ parent.parent.type = "ObjectPattern"
          /\ (key = "value" \/ ~parent.computed)
       \/ parent.type \in TypeOnlyTypes

\* the positions the classifier rejects that the claim does not list
AlsoNotQualifying(parent, key) ==
    /\ parent # Null
    /\ \/ parent.type \in SpecifierTypes /\ key \in {"imported", "exported"}
       \/ parent.type = "ExportDefaultDeclaration" /\ key = "declaration"
       \/ parent.type \in ClassMemberTypes /\ key = "key" /\ ~parent.computed
       \/ parent.type \in {"ForInStatement", "ForOfStatement"} /\ key = "left"

\* C20 as stated: an occurrence is not a qualifying reference when it is a
\* function's or class's own name, a parameter, a catch parameter, the local
\* name of an import or export specifier, a non-computed member property or
\* non-computed non-shorthand property key, a label, the id of a variable
\* declarator, a destructuring-pattern element or a child of a type-only
\* node; every other occurrence, also one without a parent, is one.
C20_Original ==
    \A call \in visited :
        call.result <=> ~ListedAsNotQualifying(call.program, call.key)

\* C20: besides the listed positions, an occurrence is not a qualifying
\* reference either when it is the imported or exported name of a
\* specifier, the declaration of a default export, the non-computed key of
\* a method or class property, or the left side of a for-in or for-of loop;
\* every other occurrence, also one without a parent, is one.
C20_ReferenceClassification ==
    \A call \in visited :
        call.result <=>
            ~(\/ ListedAsNotQualifying(call.program, call.key)
              \/ AlsoNotQualifying(call.program, call.key))

\* the initializer of a declarator has been classified as a reference
C20_Witness ==
    \E call \in visited :
        /\ call.program = VariableDeclarator(Sibling, Target)
        /\ call.key = "init"
        /\ call.result

\* an occurrence without a parent has been classified as a reference
C20_WitnessNoParent ==
    \E call \in visited : call.program = Null /\ call.result

\* the key of a method has been classified as no reference
C20_WitnessMethodKey ==
    \E call \in visited :
        /\ call.program.type = "MethodDefinition"
        /\ call.key = "key"
        /\ ~call.program.computed
        /\ ~call.result

-----------------------------------------------------------------------------
(* Properties of the scan of a program.                                    *)

RECURSIVE pairedWith(_, _)
pairedWith(children, parent) ==
    IF children = <<>> THEN <<>>
    ELSE <<<<Head(children), parent>>>> \o pairedWith(Tail(children), parent)

\* every node under the nodes of todo with its parent, in source order
RECURSIVE Placed(_, _)
Placed(todo, visitorKeys) ==
    IF todo = <<>> THEN <<>>
    ELSE <<Head(todo)>>
         \o Placed(pairedWith(getChildNodes(Head(todo)[1], visitorKeys),
                              Head(todo)[1])
                   \o Tail(todo), visitorKeys)

ProgramPlaced == Placed(<<<<file.program, Null>>>>, getVisitorKeys(file.sourceCode))

\* the [start, end] of a node, from whichever fields carry it
SpanOf(node) ==
    IF "range" \in DOMAIN node THEN node.range ELSE <<node.start, node.end>>

\* the places of placed that hold an identifier of the name of the call
\* that is a qualifying reference and has the span of no excluded node
QualifyingPlaces(call, placed) ==
    {i \in 1..Len(placed) :
        LET node == placed[i][1]
            parent == placed[i][2]
            excluded == call.node.excludedNodes
        IN /\ node.type = "Identifier"
           /\ node.name = call.node.name
           /\ isIdentifierReference(node, parent)
           /\ \A k \in 1..Len(excluded) : SpanOf(excluded[k]) # SpanOf(node)}

UsageCalls == {call \in visited : call.rule = "isIdentifierUsedInternally"}

\* C21: the scan returns true exactly when the program holds an identifier
\* of the name that is a qualifying reference and whose span differs from
\* the span of every excluded node, whether or not the excluded node is the
\* same object; it stops at the first such reference and visits no node
\* after it.
C21_ScanFindsFirstReferenceOutsideExcludedSpans ==
    LET placed == ProgramPlaced IN
    \A call \in UsageCalls :
        LET places == QualifyingPlaces(call, placed) IN
        /\ call.result <=> places # {}
        /\ call.result =>
               \A first \in places :
                   (\A other \in places : first <= other)
                   => /\ Len(call.order) = first
                      /\ \A i \in 1..first : call.order[i] = placed[i][1]

\* on `x(); x();` the scan for x has excluded the first callee by the span
\* of an object of another pass and has stopped at the second
C21_Witness ==
    \E call \in UsageCalls :
        /\ file.sourceCode # Null
        /\ file.sourceCode.text = <<"x();", "x();">>
        /\ call.node.name = "x"
        /\ Len(call.node.excludedNodes) = 1
        /\ SpanOf(call.node.excludedNodes[1]) = <<0, 1>>
        /\ "start" \in DOMAIN call.node.excludedNodes[1]
        /\ call.result
        /\ SpanOf(call.order[Len(call.order)]) = <<10, 11>>

\* on `x(); o.x;` the scan for x has stopped at the callee and has not
\* visited the second statement
C21_WitnessStops ==
    \E call \in UsageCalls :
        /\ file.sourceCode # Null
        /\ file.sourceCode.text = <<"x();", "o.x;">>
        /\ call.node.name = "x"
        /\ call.node.excludedNodes = <<>>
        /\ call.result
        /\ Len(call.order) = 4
        /\ Len(ProgramPlaced) > 4

\* with the same exclusion the scan of `x();` alone has found nothing
C21_WitnessExcluded ==
    \E call \in UsageCalls :
        /\ file.sourceCode # Null
        /\ file.sourceCode.text = <<"x();">>
        /\ call.node.name = "x"
        /\ Len(call.node.excludedNodes) = 1
        /\ "start" \in DOMAIN call.node.excludedNodes[1]
        /\ ~call.result

-----------------------------------------------------------------------------
(* Nested scopes.                                                          *)

InnerBindingLine == "function g() { const x = 2; return x; }"

\* the default export's identifier and the top-level declared ids of x
DefaultExportExclusions ==
    defaultExportIdentifiers(file.program.body, "x")
    \o getTopLevelDeclarationInfo(file.program, "x").variableIds

\* x is a top-level variable, is exported by default, and occurs otherwise
\* only inside a function that declares an x of its own
OnlyInnerOccurrences ==
    /\ HasLine(VariableLines)
    /\ HasLine({InnerBindingLine})
    /\ HasLine({"export default x;"})
    /\ \A i \in 1..Len(Lines) :
           Lines[i] \in VariableLines \cup {InnerBindingLine, "export default x;"}

\* C22: when a top-level variable x is exported by default by its bare name
\* and all its other occurrences are references to another x declared
\* inside a nested function, the scan still returns true and the default
\* export is accepted.
C22_InnerBindingCountsAsUse ==
    (ExportDone /\ OnlyInnerOccurrences)
    => /\ isIdentifierUsedInternally(file.program, "x", DefaultExportExclusions,
                                     file.sourceCode)
       /\ \A i \in 1..Len(Lines) :
              Lines[i] = "export default x;" => DefaultExportAccepted(i)

\* `let x; function g() { const x = 2; return x; } export default x;` has
\* been accepted without a binding table of the host
C22_Witness ==
    /\ ExportDone
    /\ Lines = <<"let x;", InnerBindingLine, "export default x;">>
    /\ file.sourceCode.scopeManager = Null
    /\ reports = <<>>

-----------------------------------------------------------------------------
(* The tree walker on its own: getChildNodes on one node, with the table   *)
(* of the host or without a table.  `file.program` is the node.            *)

WalkerLines ==
    {"function f(x) {}", "function g() { const x = 2; return x; }",
     "export { type T, b };", "export const X = { k: 1 };",
     "export const T = TEMPLATE(t${y});", "x();", "o.x;", "export * from 'm';",
     "export default x;", "export type T = string;", "class x {}"}

\* `x: string`, an identifier with a type annotation
TypedIdentifier ==
    [type |-> "Identifier", name |-> "x", range |-> <<0, 9>>,
     typeAnnotation |->
         [type |-> "TSTypeAnnotation",
          typeAnnotation |-> [type |-> "TSStringKeyword"]]]

WalkerNodes ==
    UNION {LET all == Descendants(Parse(<<line>>))
           IN {all[i] : i \in 1..Len(all)} : line \in WalkerLines}
    \cup {TypedIdentifier, TypedIdentifier.typeAnnotation,
          FunctionLike("FunctionDeclaration", Identifier("f"),
                       <<TypedIdentifier>>, BlockStatement(<<>>),
                       [type |-> "Program"]),
          ArrayPattern(<<Null, IdAt("a", 0, 3)>>),
          Property(IdAt("k", 0, 2), Literal("number", "1"), FALSE, FALSE,
                   [type |-> "ObjectExpression"]),
          Literal("number", "1").value,
          Null}

\* one call of getChildNodes
GetChildNodes ==
    /\ visited = {}
    /\ visited' =
           {[rule |-> "getChildNodes", node |-> file.program,
             children |-> getChildNodes(file.program,
                                        getVisitorKeys(file.sourceCode))]}
    /\ UNCHANGED <<file, reports, found, instances>>

InitWalker ==
    /\ \E node \in WalkerNodes, hasVisitorKeys \in BOOLEAN :
           file = File(node, SourceCode(<<>>, hasVisitorKeys, Null), NoOptions)
    /\ reports = <<>>
    /\ visited = {}
    /\ found = FALSE
    /\ instances = <<>>

NextWalker == GetChildNodes

SpecWalker == InitWalker /\ [][NextWalker]_vars

-----------------------------------------------------------------------------
(* Properties of the tree walker.                                          *)

\* an object with a string kind tag
HasKindTag(value) == value # Null /\ "type" \in DOMAIN value

\* the node-valued entries of the fields keys of node, in the order of
\* keys, an array field contributing its elements in order
RECURSIVE NodeValuedEntries(_, _)
NodeValuedEntries(node, keys) ==
    IF keys = <<>> THEN <<>>
    ELSE LET key == Head(keys) IN
         (IF key \notin DOMAIN node \/ key \in PrimitiveKeys THEN <<>>
          ELSE IF IsArrayValue(node, key) THEN SelectSeq(node[key], HasKindTag)
          ELSE IF HasKindTag(node[key]) THEN <<node[key]>>
          ELSE <<>>)
         \o NodeValuedEntries(node, Tail(keys))

OwnFieldsButParent(node) == SelectSeq(OwnKeys(node), LAMBDA key : key # "parent")

Table == getVisitorKeys(file.sourceCode)

WalkerCalls == {call \in visited : call.rule = "getChildNodes"}

\* C23 as stated: with an entry for the node's kind in the table the child
\* list is the node-valued entries of the entry's fields in table order,
\* otherwise those of all own fields but parent in enumeration order; no
\* value that is not a node is a child.
C23_Original ==
    \A call \in WalkerCalls :
        /\ HasKindTag(call.node) =>
               call.children =
                   IF call.node.type \in DOMAIN Table
                   THEN NodeValuedEntries(call.node, Table[call.node.type])
                   ELSE NodeValuedEntries(call.node, OwnFieldsButParent(call.node))
        /\ \A i \in 1..Len(call.children) : HasKindTag(call.children[i])

\* C23: with an entry for the node's kind in the table that names at least
\* one field the child list is the node-valued entries of the entry's
\* fields in table order; without a table, without an entry or with an
\* empty entry it is those of all own fields but parent in enumeration
\* order; no value that is not a node is a child, and what is not a node
\* has no children.
C23_ChildList ==
    \A call \in WalkerCalls :
        /\ call.children =
               IF ~HasKindTag(call.node) THEN <<>>
               ELSE IF /\ call.node.type \in DOMAIN Table
                       /\ Table[call.node.type] # <<>>
               THEN NodeValuedEntries(call.node, Table[call.node.type])
               ELSE NodeValuedEntries(call.node, OwnFieldsButParent(call.node))
        /\ \A i \in 1..Len(call.children) : HasKindTag(call.children[i])

\* the children of `export { type T, b }`'s first specifier have been listed
\* in table order, exported before local
C23_Witness ==
    \E call \in WalkerCalls :
        /\ HasKindTag(call.node)
        /\ call.node.type = "ExportSpecifier"
        /\ Table = VisitorKeys
        /\ Len(call.children) = 2
        /\ call.children = <<call.node.exported, call.node.local>>

\* without a table the children of a function have been listed without its
\* parent
C23_WitnessNoTable ==
    \E call \in WalkerCalls :
        /\ HasKindTag(call.node)
        /\ call.node.type = "FunctionDeclaration"
        /\ Table = NoVisitorKeys
        /\ call.children = <<call.node.id>> \o call.node.params \o <<call.node.body>>

\* with the table's empty entry for identifiers the type annotation of
\* `x: string` has been listed
C23_WitnessEmptyEntry ==
    \E call \in WalkerCalls :
        /\ call.node = TypedIdentifier
        /\ Table = VisitorKeys
        /\ call.children = <<TypedIdentifier.typeAnnotation>>

-----------------------------------------------------------------------------
(* Properties of the traversal of the scan.                                *)

\* the child slots of a node: a field that holds a node, or a place of an
\* array field that does; the parent field is no child slot
Slots(node) ==
    LET fields == DOMAIN node \ (PrimitiveKeys \cup {"parent"})
    IN {<<key, 0>> : key \in {k \in fields :
                                 ~IsArrayValue(node, k) /\ HasKindTag(node[k])}}
       \cup UNION {{<<key, i>> : i \in {j \in 1..Len(node[key]) :
                                          HasKindTag(node[key][j])}} :
                   key \in {k \in fields : IsArrayValue(node, k)}}

InSlot(node, slot) ==
    IF slot[2] = 0 THEN node[slot[1]] ELSE node[slot[1]][slot[2]]

\* the ways from a node down through child slots, one for every node under
\* it and the empty one for itself
RECURSIVE Paths(_)
Paths(node) ==
    {<<>>}
    \cup UNION {{<<slot>> \o path : path \in Paths(InSlot(node, slot))} :
                slot \in Slots(node)}

RECURSIVE NodeAt(_, _)
NodeAt(node, path) ==
    IF path = <<>> THEN node ELSE NodeAt(InSlot(node, Head(path)), Tail(path))

\* C24: the scan never follows the parent field of a node, it returns on
\* every tree, and when it finds no qualifying reference it has visited
\* every node that child slots lead to exactly once.
C24_ScanVisitsEveryNodeOnce ==
    LET paths == Paths(file.program)
        reachable == {NodeAt(file.program, path) : path \in paths}
    IN \A call \in UsageCalls :
           /\ \A i \in 1..Len(call.order) : call.order[i] \in reachable
           /\ ~call.result =>
                  /\ Len(call.order) = Cardinality(paths)
                  /\ {call.order[i] : i \in 1..Len(call.order)} = reachable

\* without a table of the host the scan of `function f(x) {} o.x;` for x
\* has returned false after a visit to each of the nodes, the function's
\* parent field not followed
C24_Witness ==
    \E call \in UsageCalls :
        /\ file.sourceCode # Null
        /\ ~file.sourceCode.hasVisitorKeys
        /\ file.sourceCode.text = <<"function f(x) {}", "o.x;">>
        /\ "parent" \in DOMAIN file.program.body[1]
        /\ call.node.name = "x"
        /\ ~call.result
        /\ Len(call.order) = Cardinality(Paths(file.program))
        /\ Len(call.order) >= 9

-----------------------------------------------------------------------------
(* The primitive-literal classifier on its own.  `file.program` is the     *)
(* expression it is asked about, Null for a declarator without an          *)
(* initializer.                                                            *)

\* grouping layers around an expression
MaxParens == 2

\* the literals of the language by the typeof of their value; the value of
\* a regular-expression literal is an object
Literals ==
    {Literal("string", "a"), Literal("number", "1"), Literal("boolean", "true"),
     Literal("null", "null"), Literal("bigint", "1n"), Literal("object", "/a/")}

UnaryOperators == {"+", "-", "~", "!", "typeof", "void"}

\* what a unary operator is applied to
Operands ==
    Literals
    \cup {Identifier("y"), ParenthesizedExpression(Literal("number", "1")),
          UnaryExpression("-", Literal("number", "1")),
          UnaryExpression("!", Literal("boolean", "true"))}

LiteralExpressions ==
    Literals
    \cup {UnaryExpression(operator, argument) :
            operator \in UnaryOperators, argument \in Operands}
    \cup {TemplateLiteral(<<TemplateElement("t")>>, <<>>),
          TemplateLiteral(<<TemplateElement("t"), TemplateElement("")>>,
                          <<Identifier("y")>>),
          Identifier("y"), ObjectExpression(<<>>),
          [type |-> "ArrayExpression", elements |-> <<>>],
          CallExpression(Identifier("f"), <<>>),
          MemberExpression(Identifier("o"), Identifier("y"), FALSE),
          ChainExpression(MemberExpression(Identifier("o"), Identifier("y"), FALSE)),
          TSNonNullExpression(Literal("number", "1")),
          Null}

RECURSIVE Grouped(_, _)
Grouped(expression, layers) ==
    IF layers = 0 THEN expression
    ELSE ParenthesizedExpression(Grouped(expression, layers - 1))

\* one call of isPrimitiveLiteralExpression
IsPrimitiveLiteralExpression ==
    /\ visited = {}
    /\ visited' =
           {[rule |-> "isPrimitiveLiteralExpression", node |-> file.program,
             result |-> isPrimitiveLiteralExpression(file.program)]}
    /\ UNCHANGED <<file, reports, found, instances>>

InitLiteral ==
    /\ \E expression \in LiteralExpressions, layers \in 0..MaxParens :
           file = File(Grouped(expression, layers), Null, NoOptions)
    /\ reports = <<>>
    /\ visited = {}
    /\ found = FALSE
    /\ instances = <<>>

NextLiteral == IsPrimitiveLiteralExpression

SpecLiteral == InitLiteral /\ [][NextLiteral]_vars

-----------------------------------------------------------------------------
(* Properties of the primitive-literal classifier.                         *)

RECURSIVE Ungrouped(_)
Ungrouped(expression) ==
    IF expression.type = "ParenthesizedExpression"
    THEN Ungrouped(expression.expression)
    ELSE expression

IsLiteralOf(expression, typeofs) ==
    expression.type = "Literal" /\ expression.value.typeof \in typeofs

\* the expressions the claim lists, without grouping layers; a numeric
\* literal is a number or a big integer
ListedAsPrimitive(expression) ==
    \/ IsLiteralOf(expression, {"string", "number", "boolean", "null", "bigint"})
    \/ /\ expression.type = "UnaryExpression"
       /\ expression.operator \in {"+", "-", "~"}
       /\ IsLiteralOf(expression.argument, {"number", "bigint"})
    \/ /\ expression.type = "UnaryExpression"
       /\ expression.operator = "!"
       /\ IsLiteralOf(expression.argument, {"boolean"})
    \/ expression.type = "TemplateLiteral" /\ expression.expressions = <<>>

LiteralCalls == {call \in visited : call.rule = "isPrimitiveLiteralExpression"}

\* C25: the classifier returns true exactly for a literal with a string,
\* number, boolean, null or big integer value, for +, - or ~ applied
\* directly to a numeric literal, for ! applied directly to a boolean
\* literal, for a template literal without embedded expressions, and for
\* any of these in grouping layers; for every other expression it returns
\* false.
C25_PrimitiveLiteralExactly ==
    \A call \in LiteralCalls :
        call.result <=> ListedAsPrimitive(Ungrouped(call.node))

\* `(-1)` has been classified as primitive
C25_Witness ==
    \E call \in LiteralCalls :
        /\ call.node =
               ParenthesizedExpression(UnaryExpression("-", Literal("number", "1")))
        /\ call.result

\* `-(1)`, `- -1` and `!1` have not
C25_WitnessNot ==
    \E call \in LiteralCalls :
        /\ call.node \in
               {UnaryExpression("-", ParenthesizedExpression(Literal("number", "1"))),
                UnaryExpression("-", UnaryExpression("-", Literal("number", "1"))),
                UnaryExpression("!", Literal("number", "1"))}
        /\ ~call.result

-----------------------------------------------------------------------------
(* Nodes that do not meet the preconditions of a rule.                     *)

HasBlockBody(node) == node.body # Null /\ node.body.type = "BlockStatement"

\* C26: a node that does not meet the preconditions of a rule is skipped
\* without a report and without an error: require-guard-clauses and
\* no-empty-wrappers report no function-like node without a block body and
\* none whose block has no statement or more than one, no-swallowed-catch
\* reports no catch clause without a block body, and export-code-last
\* reports nothing for a program without top-level statements.
C26_PreconditionsNotMetNoReport ==
    \A run \in visited :
        /\ (/\ run.rule \in {"require-guard-clauses", "no-empty-wrappers"}
            /\ ~HasBlockBody(run.node))
           => run.reports = <<>>
        /\ (/\ run.rule \in {"require-guard-clauses", "no-empty-wrappers"}
            /\ HasBlockBody(run.node)
            /\ Len(run.node.body.body) # 1)
           => run.reports = <<>>
        /\ (run.rule = "no-swallowed-catch" /\ ~HasBlockBody(run.node))
           => run.reports = <<>>
        /\ (run.rule = "export-code-last" /\ run.node.body = <<>>)
           => run.reports = <<>>

\* no-empty-wrappers has been called on `export default (a) => g(a)` and has
\* reported nothing
C26_Witness ==
    \E run \in visited :
        /\ run.rule = "no-empty-wrappers"
        /\ run.node.type = "ArrowFunctionExpression"
        /\ run.node.parent.type = "ExportDefaultDeclaration"
        /\ run.node.body.type = "CallExpression"
        /\ run.reports = <<>>

\* require-guard-clauses has been called on a function of two `if`s, and
\* no-swallowed-catch on a catch clause without a body, and export-code-last
\* on an empty program, and none has reported
C26_WitnessOthers ==
    /\ \E run \in visited :
           /\ run.rule = "require-guard-clauses"
           /\ HasBlockBody(run.node)
           /\ Len(run.node.body.body) = 2
           /\ run.node.body.body[1].type = "IfStatement"
    /\ reports = <<>>

C26_WitnessCatch ==
    \E run \in visited :
        run.rule = "no-swallowed-catch" /\ run.node.body = Null

C26_WitnessEmptyProgram ==
    \E run \in visited :
        run.rule = "export-code-last" /\ run.node.body = <<>>

-----------------------------------------------------------------------------
(* Properties of export-code-last: how often one statement is reported.    *)

\* how often statement i was reported, under any message
TimesReportedAtAll(i) ==
    Cardinality({k \in 1..Len(reports) : reports[k].node = file.program.body[i]})

\* C27: within one run of export-code-last, a statement reported as a local
\* export list or as an alias export is not reported for ordering as well,
\* and none is reported both as a list and as an alias: each such statement
\* has exactly one report, wherever it stands.
C27_ListOrAliasReportedOnce ==
    ExportDone =>
        \A i \in 1..Len(Lines) :
            LET asList == TimesReported(i, "noExportSpecifiers")
                asAlias == TimesReported(i, "noExportAlias")
            IN  asList > 0 \/ asAlias > 0
                    => /\ TimesReported(i, "exportsLast") = 0
                       /\ asList = 0 \/ asAlias = 0
                       /\ TimesReportedAtAll(i) = 1

\* an export list and an alias export, both ahead of a declaration, have one
\* report each and none for ordering
C27_Witness ==
    /\ ExportDone
    /\ Lines = <<"export { b };", "export const x = y;", "const a = 1;">>
    /\ TimesReported(1, "noExportSpecifiers") = 1
    /\ TimesReported(2, "noExportAlias") = 1
    /\ TimesReportedAtAll(1) = 1
    /\ TimesReportedAtAll(2) = 1
    /\ OrderingReports = <<>>

\* the same statements with a function that has to move ahead of them
C27_WitnessWithOrdering ==
    /\ ExportDone
    /\ Lines = <<"export function f() {}", "export { b };", "const a = 1;">>
    /\ TimesReported(1, "exportsLast") = 1
    /\ TimesReportedAtAll(2) = 1
    /\ Len(reports) = 2

====
